---- MODULE Spec2Model ----
(***************************************************************************)
(* Grade ledger merge-and-aggregation engine of the MarkingScripts         *)
(* repository: append_grades_row (mark.py) and the student index of        *)
(* generate_termly_report.py.                                              *)
(*                                                                         *)
(* A string is a sequence of one-character strings, so that strip(),       *)
(* lower() and the regular expressions of the source are computed, not     *)
(* assumed.  A ledger file is a sequence of csv records, each a sequence   *)
(* of cells; the first record is the header.                               *)
(***************************************************************************)
EXTENDS Integers, Sequences, FiniteSets, TLC

\* ------------------------------------------------------------------ bounds

\* Number of append_grades_row calls explored from the non-existent ledger.
MaxCalls == 2

\* Number of rows the aggregation pass reads over all ledgers.
MaxAggRows == 3

\* Number of ledgers (grades1.csv, grades2.csv, ...) of the aggregation pass.
MaxLedgers == 2

\* Number of report runs over one course directory.
MaxRuns == 2

\* Number of submissions the marking loop goes through.
MaxSubmissions == 2

\* Length of the strings and size of the ints handed to the grade codec.
MaxOverallLen == 3
MaxOverallInt == 10

\* Number of columns of a header handed to detect_question_columns.
MaxHeaderLen == 4

\* Length of the column names made of single characters.
MaxNameLen == 3

\* Number of runs of download_new_assignment in one course.
MaxDownloads == 11

\* Number of edits made in the grade editor before saving.
MaxEdits == 2

\* ----------------------------------------------------------------- strings

Space == " "
Tab == "\t"
Newline == "\n"
CarriageReturn == "\r"

\* The whitespace class of str.strip() and of the regex \s.
IsSpace(c) == c \in {Space, Tab, "\n", "\r"}

DigitChars == <<"0", "1", "2", "3", "4", "5", "6", "7", "8", "9">>

IsDigit(c) == \E i \in 1..Len(DigitChars) : DigitChars[i] = c

DigitValue(c) == (CHOOSE i \in 1..Len(DigitChars) : DigitChars[i] = c) - 1

\* int() of a string of decimal digits.
RECURSIVE IntOf(_)
IntOf(s) ==
    IF s = <<>> THEN 0
    ELSE 10 * IntOf(SubSeq(s, 1, Len(s) - 1)) + DigitValue(s[Len(s)])

\* str(n) for a natural number n.
RECURSIVE StrOfNat(_)
StrOfNat(n) ==
    IF n < 10 THEN <<DigitChars[n + 1]>>
    ELSE StrOfNat(n \div 10) \o <<DigitChars[(n % 10) + 1]>>

UpperLetters ==
    <<"A", "B", "C", "D", "E", "F", "G", "H", "I", "J", "K", "L", "M",
      "N", "O", "P", "Q", "R", "S", "T", "U", "V", "W", "X", "Y", "Z">>
LowerLetters ==
    <<"a", "b", "c", "d", "e", "f", "g", "h", "i", "j", "k", "l", "m",
      "n", "o", "p", "q", "r", "s", "t", "u", "v", "w", "x", "y", "z">>

\* str.lower() on one character.
LowerChar(c) ==
    IF \E i \in 1..Len(UpperLetters) : UpperLetters[i] = c
    THEN LowerLetters[CHOOSE i \in 1..Len(UpperLetters) : UpperLetters[i] = c]
    ELSE c

\* str.lower()
Lower(s) == [i \in 1..Len(s) |-> LowerChar(s[i])]

RECURSIVE LStrip(_)
LStrip(s) ==
    IF s # <<>> /\ IsSpace(s[1]) THEN LStrip(Tail(s)) ELSE s

RECURSIVE RStrip(_)
RStrip(s) ==
    IF s # <<>> /\ IsSpace(s[Len(s)])
    THEN RStrip(SubSeq(s, 1, Len(s) - 1))
    ELSE s

\* str.strip()
Strip(s) == RStrip(LStrip(s))

\* ----------------------------------------------------------- list helpers

\* x in lst
InList(x, lst) == \E i \in 1..Len(lst) : lst[i] = x

\* lst.index(x), 0-based, for x in lst
IndexOf(x, lst) == (CHOOSE i \in 1..Len(lst) : lst[i] = x /\ \A j \in 1..(i - 1) : lst[j] # x) - 1

\* lst.insert(pos, x) with a 0-based pos
ListInsert(lst, pos, x) ==
    LET p == IF pos > Len(lst) THEN Len(lst) ELSE pos
    IN SubSeq(lst, 1, p) \o <<x>> \o SubSeq(lst, p + 1, Len(lst))

\* A Python dict is the sequence of its <<key, value>> items in insertion
\* order; keys are unique.
DictKeys(d) == [i \in 1..Len(d) |-> d[i][1]]

HasKey(d, k) == \E i \in 1..Len(d) : d[i][1] = k

\* None: a value that is no string (no string has a four-letter character).
None == <<"None">>

\* d.get(k)
DictGet(d, k) ==
    IF HasKey(d, k) THEN d[CHOOSE i \in 1..Len(d) : d[i][1] = k][2] ELSE None

\* d[k] = v
DictSet(d, k, v) ==
    IF HasKey(d, k)
    THEN [i \in 1..Len(d) |-> IF d[i][1] = k THEN <<k, v>> ELSE d[i]]
    ELSE Append(d, <<k, v>>)

\* v or ''
OrEmpty(v) == IF v = None THEN <<>> ELSE v

\* ------------------------------------------------------------ ledger file

NameCol == <<"N", "a", "m", "e">>
SubmissionTimeCol == <<"S", "u", "b", "m", "i", "s", "s", "i", "o", "n", "T", "i", "m", "e">>
FeedbackCol == <<"F", "e", "e", "d", "b", "a", "c", "k">>
OverallCol == <<"O", "v", "e", "r", "a", "l", "l">>

base_columns == <<NameCol, SubmissionTimeCol, FeedbackCol, OverallCol>>

\* A ledger file that does not exist, and one holding csv records.
NoFile == [exists |-> FALSE, records |-> <<>>]

FileOf(recs) == [exists |-> TRUE, records |-> recs]

\* The value csv.DictReader stores under restkey for surplus cells (a list).
RestList == <<"list">>

\* One row of csv.DictReader: dict(zip(fieldnames, cells)), restval None for
\* the columns a short record lacks, restkey None for surplus cells.
RECURSIVE ZipRow(_, _, _)
ZipRow(fieldnames, cells, d) ==
    IF fieldnames = <<>> \/ cells = <<>> THEN d
    ELSE ZipRow(Tail(fieldnames), Tail(cells), DictSet(d, Head(fieldnames), Head(cells)))

RECURSIVE RestVal(_, _)
RestVal(keys, d) ==
    IF keys = <<>> THEN d ELSE RestVal(Tail(keys), DictSet(d, Head(keys), None))

DictReaderRow(fieldnames, cells) ==
    LET lf == Len(fieldnames)
        lr == Len(cells)
        d == ZipRow(fieldnames, cells, <<>>)
    IN IF lf < lr THEN DictSet(d, None, RestList)
       ELSE IF lf > lr THEN RestVal(SubSeq(fieldnames, lr + 1, lf), d)
       ELSE d

\* Mutant of NormValue: the values are not stripped.
NormValueUnstripped(v) == IF v = None THEN <<>> ELSE v

\* mark.py line 62: keys None -> '', string values stripped, others v or ''.
NormValue(v) ==
    IF v = None THEN <<>> ELSE IF v = RestList THEN v ELSE Strip(v)

NormRow(r) ==
    [i \in 1..Len(r) |->
        <<IF r[i][1] = None THEN <<>> ELSE r[i][1], NormValue(r[i][2])>>]

\* mark.py lines 59: reader.fieldnames[:] if reader.fieldnames else []
ReadHeader(file) ==
    IF file.exists /\ file.records # <<>> THEN file.records[1] ELSE <<>>

IsDataRecord(rec) == rec # <<>>

\* mark.py lines 60-63: the rows of the file, blank records skipped by csv.
ReadRows(file) ==
    IF file.exists /\ file.records # <<>>
    THEN LET data == SelectSeq(Tail(file.records), IsDataRecord)
         IN [i \in 1..Len(data) |-> NormRow(DictReaderRow(file.records[1], data[i]))]
    ELSE <<>>

\* -------------------------- the csv text of a ledger (csv module, excel dialect)

Comma == ","
Quote == "\""

\* QUOTE_MINIMAL: a field with a delimiter, a quote or a line-end character is
\* quoted, and so is the empty field of a one-field record.
NeedsQuotes(field, alone) ==
    \/ \E i \in 1..Len(field) : field[i] \in {Comma, Quote, Newline, CarriageReturn}
    \/ field = <<>> /\ alone

\* doublequote: each quote of a quoted field is written twice.
RECURSIVE DoubleQuotes(_)
DoubleQuotes(field) ==
    IF field = <<>> THEN <<>>
    ELSE (IF Head(field) = Quote THEN <<Quote, Quote>> ELSE <<Head(field)>>)
            \o DoubleQuotes(Tail(field))

\* Mutant of CsvField: no field is quoted.
CsvFieldUnquoted(field, alone) == field

CsvField(field, alone) ==
    IF NeedsQuotes(field, alone)
    THEN <<Quote>> \o DoubleQuotes(field) \o <<Quote>>
    ELSE field

\* writer.writerow: the fields joined by commas, then '\r\n'.
RECURSIVE CsvJoin(_, _)
CsvJoin(rec, alone) ==
    IF rec = <<>> THEN <<>>
    ELSE CsvField(Head(rec), alone)
            \o (IF Len(rec) > 1 THEN <<Comma>> ELSE <<>>)
            \o CsvJoin(Tail(rec), alone)

writerow(rec) == CsvJoin(rec, Len(rec) = 1) \o <<CarriageReturn, Newline>>

\* mark.py lines 126-131: writeheader and one writerow per row.
RECURSIVE CsvText(_)
CsvText(recs) ==
    IF recs = <<>> THEN <<>> ELSE writerow(Head(recs)) \o CsvText(Tail(recs))

\* csv.reader over the lines of a file opened with newline='': the parser of
\* the csv module, one character at a time. A line ends after '\n', after
\* '\r' not followed by '\n', and at the end of the text.
IsLineEnd(text, i) ==
    \/ text[i] = Newline
    \/ text[i] = CarriageReturn /\ ~(i < Len(text) /\ text[i + 1] = Newline)

\* The position after the line break that starts at position i.
AfterLineBreak(text, i) == IF IsLineEnd(text, i) THEN i + 1 ELSE i + 2

\* The parser from the start of a field at position i: st is its state and
\* field what it has collected. The result is the field, how it ended (with
\* a delimiter, with the record, with the text) and the position after it.
RECURSIVE ScanField(_, _, _, _)
ScanField(text, i, st, field) ==
    IF i > Len(text) THEN [field |-> field, ends |-> "text", next |-> i]
    ELSE IF st = "IN_QUOTED_FIELD"
    THEN IF text[i] = Quote
         THEN ScanField(text, i + 1, "QUOTE_IN_QUOTED_FIELD", field)
         ELSE ScanField(text, i + 1, "IN_QUOTED_FIELD", Append(field, text[i]))
    ELSE IF text[i] \in {Newline, CarriageReturn}
    THEN [field |-> field, ends |-> "record", next |-> AfterLineBreak(text, i)]
    ELSE IF text[i] = Comma
    THEN [field |-> field, ends |-> "field", next |-> i + 1]
    ELSE IF text[i] = Quote /\ st = "START_FIELD"
    THEN ScanField(text, i + 1, "IN_QUOTED_FIELD", field)
    ELSE IF text[i] = Quote /\ st = "QUOTE_IN_QUOTED_FIELD"
    THEN ScanField(text, i + 1, "IN_QUOTED_FIELD", Append(field, Quote))
    ELSE ScanField(text, i + 1, "IN_FIELD", Append(field, text[i]))

\* The parser from position i: rec holds the fields of the record begun,
\* recs the records returned so far; an empty line is the record [].
RECURSIVE CsvParse(_, _, _, _, _)
CsvParse(text, i, start_record, rec, recs) ==
    IF i > Len(text)
    THEN IF start_record THEN recs ELSE Append(recs, Append(rec, <<>>))
    ELSE IF start_record /\ text[i] \in {Newline, CarriageReturn}
    THEN CsvParse(text, AfterLineBreak(text, i), TRUE, <<>>, Append(recs, <<>>))
    ELSE LET f == ScanField(text, i, "START_FIELD", <<>>)
         IN IF f.ends = "field"
            THEN CsvParse(text, f.next, FALSE, Append(rec, f.field), recs)
            ELSE IF f.ends = "record"
            THEN CsvParse(text, f.next, TRUE, <<>>, Append(recs, Append(rec, f.field)))
            ELSE Append(recs, Append(rec, f.field))

\* csv.reader(fh): the records of a text.
CsvRecords(text) == CsvParse(text, 1, TRUE, <<>>, <<>>)


\* ------------------------------------------- append_grades_row (mark.py)

\* mark.py line 45: None values of new_row become ''.
incoming(new_row) ==
    [i \in 1..Len(new_row) |-> <<new_row[i][1], OrEmpty(new_row[i][2])>>]

\* re.match(r'^Q\d+$', k, re.IGNORECASE)
IsQKey(k) ==
    /\ Len(k) >= 2
    /\ k[1] \in {"Q", "q"}
    /\ \A i \in 2..Len(k) : IsDigit(k[i])

\* int(re.search(r'\d+', x).group()) for a key the pattern above matched
QKeyNum(k) == IntOf(SubSeq(k, 2, Len(k)))

\* sorted(keys, key=QKeyNum): stable, by insertion after the last element
\* whose number is not greater.
RECURSIVE SortedByQNum(_)
SortedByQNum(keys) ==
    IF keys = <<>> THEN <<>>
    ELSE LET front == SortedByQNum(SubSeq(keys, 1, Len(keys) - 1))
             x == keys[Len(keys)]
             n == Cardinality({i \in 1..Len(front) : QKeyNum(front[i]) <= QKeyNum(x)})
         IN ListInsert(front, n, x)

\* mark.py lines 48-51
incoming_q_keys(inc) == SortedByQNum(SelectSeq(DictKeys(inc), IsQKey))

\* mark.py lines 70-76, from the i-th base column on.
RECURSIVE EnsureBaseColumns(_, _)
EnsureBaseColumns(header, i) ==
    IF i > Len(base_columns) THEN header
    ELSE LET col == base_columns[i]
             insert_pos ==
                 IF i > 1 /\ InList(base_columns[i - 1], header)
                 THEN IndexOf(base_columns[i - 1], header) + 1
                 ELSE 0
         IN IF InList(col, header)
            THEN EnsureBaseColumns(header, i + 1)
            ELSE EnsureBaseColumns(ListInsert(header, insert_pos, col), i + 1)

\* mark.py lines 66-76
HeaderWithBase(header) ==
    IF header = <<>> THEN base_columns ELSE EnsureBaseColumns(header, 1)

\* mark.py lines 81-84
RECURSIVE InsertQKeys(_, _, _)
InsertQKeys(header, qkeys, insert_after) ==
    IF qkeys = <<>> THEN header
    ELSE IF InList(Head(qkeys), header)
         THEN InsertQKeys(header, Tail(qkeys), insert_after)
         ELSE InsertQKeys(ListInsert(header, insert_after, Head(qkeys)),
                          Tail(qkeys), insert_after + 1)

\* Mutant of HeaderWithQKeys: the new Q columns go in front of Overall.
HeaderWithQKeysBeforeOverall(header, qkeys) ==
    LET insert_after ==
            IF InList(OverallCol, header)
            THEN IndexOf(OverallCol, header)
            ELSE Len(header)
    IN InsertQKeys(header, qkeys, insert_after)

\* mark.py lines 79-84
HeaderWithQKeys(header, qkeys) ==
    LET insert_after ==
            IF InList(OverallCol, header)
            THEN IndexOf(OverallCol, header) + 1
            ELSE Len(header)
    IN InsertQKeys(header, qkeys, insert_after)

\* mark.py lines 87-89
HeaderWithFeedbackOverall(header) ==
    LET h1 == IF InList(FeedbackCol, header) THEN header ELSE Append(header, FeedbackCol)
    IN IF InList(OverallCol, h1) THEN h1 ELSE Append(h1, OverallCol)

\* mark.py lines 66-89: the header before the row is matched.
PreparedHeader(header, inc) ==
    HeaderWithFeedbackOverall(
        HeaderWithQKeys(HeaderWithBase(header), incoming_q_keys(inc)))

\* Mutant of student_name: the Name of the call is not stripped.
student_name_unstripped(inc) == OrEmpty(DictGet(inc, NameCol))

\* mark.py line 92
student_name(inc) == Strip(OrEmpty(DictGet(inc, NameCol)))

\* Mutant of RowMatches: the comparison is case-sensitive.
RowMatchesCaseSensitive(existing, name) ==
    Strip(OrEmpty(DictGet(existing, NameCol))) = name

\* mark.py line 96
RowMatches(existing, name) ==
    Lower(Strip(OrEmpty(DictGet(existing, NameCol)))) = Lower(name)

\* Mutant of matched_index: no row is matched.
matched_index_none(existing_rows, name) == 0

\* mark.py lines 93-98: the 1-based index of the first matching row, 0 for None.
matched_index(existing_rows, name) ==
    IF name # <<>> /\ \E i \in 1..Len(existing_rows) : RowMatches(existing_rows[i], name)
    THEN CHOOSE i \in 1..Len(existing_rows) :
            /\ RowMatches(existing_rows[i], name)
            /\ \A j \in 1..(i - 1) : ~RowMatches(existing_rows[j], name)
    ELSE 0

\* Mutant of HeaderWithKeys: every key of incoming is appended, also one the
\* header has.
HeaderWithKeysUnchecked(header, keys) == header \o keys

\* mark.py lines 103-107 and 112-116: the keys of incoming the header lacks
\* are appended to it, in the order of incoming.
RECURSIVE HeaderWithKeys(_, _)
HeaderWithKeys(header, keys) ==
    IF keys = <<>> THEN header
    ELSE HeaderWithKeys(
            IF InList(Head(keys), header) THEN header ELSE Append(header, Head(keys)),
            Tail(keys))

\* for k, v in incoming.items(): row[k] = v
RECURSIVE Overlay(_, _)
Overlay(row, items) ==
    IF items = <<>> THEN row
    ELSE Overlay(DictSet(row, Head(items)[1], Head(items)[2]), Tail(items))

\* mark.py line 111
new_record(header) == Overlay(<<>>, [i \in 1..Len(header) |-> <<header[i], <<>>>>])

\* Mutant of MergedRows: the matched row is replaced by a fresh record.
MergedRowsReplacing(existing_rows, header, inc) ==
    LET m == matched_index(existing_rows, student_name(inc))
    IN IF m # 0
       THEN [existing_rows EXCEPT ![m] = Overlay(new_record(header), inc)]
       ELSE Append(existing_rows, Overlay(new_record(header), inc))

\* Mutant of MergedRows: a new record is put in front of the rows.
MergedRowsPrepending(existing_rows, header, inc) ==
    LET m == matched_index(existing_rows, student_name(inc))
    IN IF m # 0
       THEN [existing_rows EXCEPT ![m] = Overlay(existing_rows[m], inc)]
       ELSE <<Overlay(new_record(header), inc)>> \o existing_rows

\* mark.py lines 100-117: the rows after the update or the append.
MergedRows(existing_rows, header, inc) ==
    LET m == matched_index(existing_rows, student_name(inc))
    IN IF m # 0
       THEN [existing_rows EXCEPT ![m] = Overlay(existing_rows[m], inc)]
       ELSE Append(existing_rows, Overlay(new_record(header), inc))

\* mark.py lines 120-123 and 130: the cell written for col (None and a
\* missing key become '').
out_cell(r, col) == OrEmpty(DictGet(r, col))

\* Mutant of WrittenRecords: each record holds the row's own values only.
WrittenRecordsOwnValues(header, rows) ==
    <<header>> \o [i \in 1..Len(rows) |-> [j \in 1..Len(rows[i]) |-> OrEmpty(rows[i][j][2])]]

\* mark.py lines 126-131: header record, then one record per row.
WrittenRecords(header, rows) ==
    <<header>> \o [i \in 1..Len(rows) |-> [j \in 1..Len(header) |-> out_cell(rows[i], header[j])]]

\* append_grades_row: the records the call writes, from the file it found.
append_grades_row(file, new_row) ==
    LET inc == incoming(new_row)
        existing_rows == ReadRows(file)
        header0 == PreparedHeader(ReadHeader(file), inc)
        header == HeaderWithKeys(header0, DictKeys(inc))
        rows == MergedRows(existing_rows, header0, inc)
    IN WrittenRecords(header, rows)

\* ------------------------------------------------------------------ inputs

\* The Name values of the calls: blank, a student, the same student in
\* another case and with surrounding whitespace, a second student.
NameValues == {<<>>, <<"a">>, <<Space, "A">>, <<"b">>}

\* Question numbers of the Q<n> keys a call may carry.
QNumbers == {1, 2}

\* f'Q{qnum}' (mark.py line 329)
QKey(n) == <<"Q">> \o StrOfNat(n)

GradeValue == <<"7">>
OverallValue == <<"3">>
FeedbackValue == <<Space, "g">>

\* The Q items of a call, in the order mark.py lines 324-330 add them.
RECURSIVE QItems(_, _)
QItems(qs, n) ==
    IF \A m \in qs : m < n THEN <<>>
    ELSE (IF n \in qs THEN <<(<<QKey(n), GradeValue>>)>> ELSE <<>>) \o QItems(qs, n + 1)

\* The dict mark.py lines 321-334 build: Name, Q keys, Overall, Feedback.
GradesDict(name, qs, withOverall, withFeedback) ==
    <<(<<NameCol, name>>)>>
        \o QItems(qs, 1)
        \o (IF withOverall THEN <<(<<OverallCol, OverallValue>>)>> ELSE <<>>)
        \o (IF withFeedback THEN <<(<<FeedbackCol, FeedbackValue>>)>> ELSE <<>>)

\* Which of Overall and Feedback a call carries: mark.py always passes both,
\* other callers of append_grades_row one of them.
BaseFieldChoices == {<<TRUE, TRUE>>, <<TRUE, FALSE>>, <<FALSE, TRUE>>}

NewRows ==
    {GradesDict(n, qs, b[1], b[2]) :
        n \in NameValues, qs \in SUBSET QNumbers, b \in BaseFieldChoices}

\* ------------------------------------------------------------------- state

VARIABLES
    file,       \* grades{assignment}.csv as stored
    prev,       \* the stored file when the last call began
    new_row,    \* the new_row argument of the last call
    calls,      \* number of calls begun
    pc,         \* where the writing call stands: "idle", "writing", "crashed"
    target,     \* the records the writing call is to write (lines 126-131)
    written,    \* how many of them it has handed to the csv writer
    buffer,     \* records handed over that the file object has not flushed
    observed,   \* what a report run read from the file during the call
    a_num,      \* number of the ledger the aggregation pass is at (0: none yet)
    a_cols,     \* whether that ledger has a name column and an id column
    students,   \* the student index, in insertion order
    agg_rows,   \* number of rows indexed
    last,       \* the cells and the key of the row indexed last
    first_name, \* history: per key, the first non-blank raw name of its rows
    scan_pc,    \* where the ledger scan of a report run stands
    n_files,    \* number of ledgers find_all_grades_files returned
    assignments,    \* the ledgers scanned so far (number and qcols)
    global_qcols,   \* the union of their question columns
    runs,       \* report runs over one directory: listing order and result
    rendered,   \* the report body of a run over two ledgers (none yet: <<>>)
    batch_pc,   \* where the marking loop stands: "marking", "done", "aborted"
    marked,     \* number of submissions marked and stored
    codec,      \* a call of map_overall_to_symbols: copy, argument, result
    resolved,   \* a header and what the runs of detect_question_columns gave
    stored,     \* grades{assignment}.csv as text, and the records written to it
    classified, \* a column name and how detect_question_columns took it
    ledgers,    \* the gradesN.csv of a course: N -> the run that wrote it, rows
    downloads,  \* number of runs of download_new_assignment in that course
    editor      \* the grade editor: what it loaded, its widgets, what it saved

ledgerVars == <<file, prev, new_row, calls>>
writeVars == <<pc, target, written, buffer, observed>>
aggVars == <<a_num, a_cols, students, agg_rows, last, first_name>>
scanVars == <<scan_pc, n_files, assignments, global_qcols>>

\* The variables the calls of append_grades_row and the student index leave
\* alone.
orderVars == <<runs>>

renderVars == <<rendered>>

batchVars == <<batch_pc, marked>>

codecVars == <<codec>>

resolveVars == <<resolved>>

textVars == <<stored>>

classifyVars == <<classified>>

downloadVars == <<ledgers, downloads>>

editorVars == <<editor>>

reportVars == <<scanVars, orderVars, renderVars, batchVars, codecVars,
                resolveVars, textVars, classifyVars, downloadVars, editorVars>>

Unread == [read |-> FALSE, file |-> NoFile]

InitLedger ==
    /\ file = NoFile
    /\ prev = NoFile
    /\ new_row = <<>>
    /\ calls = 0
    /\ pc = "idle"
    /\ target = <<>>
    /\ written = 0
    /\ buffer = <<>>
    /\ observed = Unread
    /\ a_num = 0
    /\ a_cols = [name_col |-> TRUE, id_col |-> FALSE]
    /\ students = <<>>
    /\ agg_rows = 0
    /\ last = [name |-> <<>>, id |-> <<>>, key |-> <<>>]
    /\ first_name = <<>>

InitScan ==
    /\ scan_pc = "start"
    /\ n_files = 0
    /\ assignments = <<>>
    /\ global_qcols = <<>>

InitOrder == runs = <<>>

InitRender == rendered = <<>>

InitBatch == batch_pc = "marking" /\ marked = 0

InitCodec == codec = <<>>

InitResolve == resolved = <<>>

InitClassify == classified = <<>>

InitDownload == ledgers = <<>> /\ downloads = 0

InitEditor == editor = [state |-> "closed"]

InitText == stored = [exists |-> FALSE, text |-> <<>>, handed |-> <<>>, calls |-> 0]

\* One complete call of append_grades_row(course_dir, assignment, nr).
ApplyUpdate(nr) ==
    /\ calls < MaxCalls
    /\ file' = FileOf(append_grades_row(file, nr))
    /\ prev' = file
    /\ new_row' = nr
    /\ calls' = calls + 1
    /\ UNCHANGED <<writeVars, aggVars, reportVars>>

\* ---- the same call, step by step through its write (mark.py 126-131) ----

\* mark.py lines 41-126: the new content is built in memory, then
\* grades_csv.open('w') creates the file or truncates it to length zero.
OpenForWrite(nr) ==
    /\ pc = "idle"
    /\ calls < MaxCalls
    /\ target' = append_grades_row(file, nr)
    /\ prev' = file
    /\ new_row' = nr
    /\ calls' = calls + 1
    /\ file' = FileOf(<<>>)
    /\ written' = 0
    /\ buffer' = <<>>
    /\ observed' = Unread
    /\ pc' = "writing"
    /\ UNCHANGED <<aggVars, reportVars>>

\* mark.py lines 128-131: writeheader() / writerow() hand the next record to
\* the buffered file object.
WriteRecord ==
    /\ pc = "writing"
    /\ written < Len(target)
    /\ buffer' = Append(buffer, target[written + 1])
    /\ written' = written + 1
    /\ UNCHANGED <<file, prev, new_row, calls, pc, target, observed, aggVars, reportVars>>

\* The file object flushes its buffer to the file when the buffer fills; the
\* model leaves open after which record that happens.
FlushBuffer ==
    /\ pc = "writing"
    /\ buffer # <<>>
    /\ file' = FileOf(file.records \o buffer)
    /\ buffer' = <<>>
    /\ UNCHANGED <<prev, new_row, calls, pc, target, written, observed, aggVars, reportVars>>

\* mark.py line 126: leaving the with block flushes and closes the file.
CloseFile ==
    /\ pc = "writing"
    /\ written = Len(target)
    /\ file' = FileOf(file.records \o buffer)
    /\ buffer' = <<>>
    /\ pc' = "idle"
    /\ UNCHANGED <<prev, new_row, calls, target, written, observed, aggVars, reportVars>>

\* The process dies (or the write fails) during the write: what the file
\* object still buffers is lost, the file stays as it is.
Crash ==
    /\ pc = "writing"
    /\ pc' = "crashed"
    /\ buffer' = <<>>
    /\ UNCHANGED <<file, prev, new_row, calls, target, written, observed, aggVars, reportVars>>

\* generate_termly_report.py lines 227-236: a report run opens the stored
\* file and reads header and rows while the call is in progress.
ReportRead ==
    /\ pc = "writing"
    /\ ~observed.read
    /\ file.exists
    /\ observed' = [read |-> TRUE, file |-> file]
    /\ UNCHANGED <<file, prev, new_row, calls, pc, target, written, buffer, aggVars, reportVars>>

NextWrite ==
    \/ \E nr \in NewRows : OpenForWrite(nr)
    \/ WriteRecord
    \/ FlushBuffer
    \/ CloseFile
    \/ Crash
    \/ ReportRead

\* ------------------------ student index (generate_termly_report.py main)

\* re.sub(r'\s+', ' ', s)
RECURSIVE CollapseWhitespace(_)
CollapseWhitespace(s) ==
    IF s = <<>> THEN <<>>
    ELSE IF IsSpace(s[1]) THEN <<Space>> \o CollapseWhitespace(LStrip(s))
    ELSE <<s[1]>> \o CollapseWhitespace(Tail(s))

\* Mutant of normalize_name: whitespace runs are left as they are.
normalize_name_uncollapsed(s) ==
    IF s = None THEN <<>> ELSE Lower(Strip(s))

\* generate_termly_report.py lines 158-164
normalize_name(s) ==
    IF s = None THEN <<>> ELSE CollapseWhitespace(Lower(Strip(s)))

\* a['path'].name of ledger num: grades<num>.csv
PathName(num) ==
    <<"g", "r", "a", "d", "e", "s">> \o StrOfNat(num) \o <<".", "c", "s", "v">>

\* lines 261 and 262: (row.get(col) or "").strip() if col else ""
RawCell(cell, has_col) == IF has_col THEN Strip(OrEmpty(cell)) ELSE <<>>

\* line 266: f"_unknown_{a['path'].name}_{len(students)}"
UnknownKeyOf(path_name, nstudents) ==
    <<"_", "u", "n", "k", "n", "o", "w", "n", "_">> \o path_name
        \o <<"_">> \o StrOfNat(nstudents)

\* the same for the ledger grades<num>.csv
UnknownKey(num, nstudents) == UnknownKeyOf(PathName(num), nstudents)

\* Mutant of StudentKey: the id is case-folded like a name.
StudentKeyFoldedId(raw_name, raw_id, num, nstudents) ==
    LET key == IF raw_id # <<>> THEN Lower(raw_id) ELSE normalize_name(raw_name)
    IN IF key = <<>> THEN UnknownKey(num, nstudents) ELSE key

\* lines 263-266, for a row of the ledger grades<num>.csv
StudentKey(raw_name, raw_id, num, nstudents) ==
    LET key == IF raw_id # <<>> THEN raw_id ELSE normalize_name(raw_name)
    IN IF key = <<>> THEN UnknownKey(num, nstudents) ELSE key

\* lines 263-266, for a row of the ledger file called path_name
StudentKeyIn(raw_name, raw_id, path_name, nstudents) ==
    LET key == IF raw_id # <<>> THEN raw_id ELSE normalize_name(raw_name)
    IN IF key = <<>> THEN UnknownKeyOf(path_name, nstudents) ELSE key

NoNameText == <<"(", "n", "o", " ", "n", "a", "m", "e", ")">>

\* the position of key in the index, 0 when it is not there
StudentIndex(studs, key) ==
    IF \E i \in 1..Len(studs) : studs[i].key = key
    THEN CHOOSE i \in 1..Len(studs) : studs[i].key = key
    ELSE 0

\* Mutant of IndexedStudents: a row does not replace the entry its student
\* has for the ledger.
IndexedStudentsFirstWins(studs, key, raw_name, raw_id, num, row) ==
    LET fresh == [key |-> key,
                  display_name |-> IF raw_name # <<>> THEN raw_name
                                   ELSE IF raw_id # <<>> THEN raw_id
                                   ELSE NoNameText,
                  id |-> IF raw_id # <<>> THEN raw_id ELSE None,
                  assignments |-> <<>>]
        withKey == IF StudentIndex(studs, key) = 0 THEN Append(studs, fresh) ELSE studs
        i == StudentIndex(withKey, key)
    IN [withKey EXCEPT ![i].assignments = @ @@ (num :> row)]

\* lines 267-279: the index after the row is entered under key.
IndexedStudents(studs, key, raw_name, raw_id, num, row) ==
    LET fresh == [key |-> key,
                  display_name |-> IF raw_name # <<>> THEN raw_name
                                   ELSE IF raw_id # <<>> THEN raw_id
                                   ELSE NoNameText,
                  id |-> IF raw_id # <<>> THEN raw_id ELSE None,
                  assignments |-> <<>>]
        withKey == IF StudentIndex(studs, key) = 0 THEN Append(studs, fresh) ELSE studs
        i == StudentIndex(withKey, key)
    IN [withKey EXCEPT ![i].assignments = (num :> row) @@ @]

\* The cells a ledger row holds under the name and the id column.
NameCells == {<<>>, <<"a", Space, "b">>, <<Space, "A", Space, Tab, "b", Space>>}

IdCells == {<<>>, <<"x">>, <<Space, "X">>}

ColumnChoices ==
    {[name_col |-> TRUE, id_col |-> FALSE],
     [name_col |-> TRUE, id_col |-> TRUE],
     [name_col |-> FALSE, id_col |-> FALSE]}

\* lines 227-247 and 256-259: the pass comes to the next ledger, in
\* ascending assignment number; choose_column finds its columns or None.
StartLedger(cols) ==
    /\ a_num < MaxLedgers
    /\ a_num' = a_num + 1
    /\ a_cols' = cols
    /\ UNCHANGED <<students, agg_rows, last, first_name, ledgerVars, writeVars, reportVars>>

\* lines 260-279: the next row of the current ledger is entered in the index.
IndexRow(name_cell, id_cell) ==
    /\ a_num >= 1
    /\ agg_rows < MaxAggRows
    /\ LET raw_name == RawCell(name_cell, a_cols.name_col)
           raw_id == RawCell(id_cell, a_cols.id_col)
           key == StudentKey(raw_name, raw_id, a_num, Len(students))
           \* the row holds a cell only under a column its ledger has
           row == [name |-> IF a_cols.name_col THEN name_cell ELSE <<>>,
                   id |-> IF a_cols.id_col THEN id_cell ELSE <<>>]
       IN /\ students' = IndexedStudents(students, key, raw_name, raw_id, a_num, row)
          /\ last' = [name |-> row.name, id |-> row.id, key |-> key]
          /\ first_name' = IF raw_name # <<>> /\ ~HasKey(first_name, key)
                           THEN DictSet(first_name, key, raw_name)
                           ELSE first_name
    /\ agg_rows' = agg_rows + 1
    /\ UNCHANGED <<a_num, a_cols, ledgerVars, writeVars, reportVars>>

NextAgg ==
    \/ \E cols \in ColumnChoices : StartLedger(cols)
    \/ \E n \in NameCells, i \in IdCells : IndexRow(n, i)

\* Cells that read like a placeholder key of ledger 1: a student's name or
\* id may be any text.
PlaceholderNameCells == {<<>>, UnknownKey(1, 0)}

PlaceholderIdCells == {<<>>, UnknownKey(1, 1)}

NextAggPlaceholder ==
    \/ \E cols \in ColumnChoices : StartLedger(cols)
    \/ \E n \in PlaceholderNameCells, i \in PlaceholderIdCells : IndexRow(n, i)

\* ------------------- question columns (generate_termly_report.py 127-155)

\* The position the regex part \s* reaches from position j of s.
RECURSIVE SkipSpaces(_, _)
SkipSpaces(s, j) ==
    IF j <= Len(s) /\ IsSpace(s[j]) THEN SkipSpaces(s, j + 1) ELSE j

\* The position the regex part \s*[_\-]?\s* reaches from position j of s.
SkipSeparator(s, j) ==
    LET a == SkipSpaces(s, j)
        b == IF a <= Len(s) /\ s[a] \in {"_", "-"} THEN a + 1 ELSE a
    IN SkipSpaces(s, b)

\* What (\d+) matches at position j of s: the longest run of digits.
RECURSIVE DigitRun(_, _)
DigitRun(s, j) ==
    IF j <= Len(s) /\ IsDigit(s[j]) THEN <<s[j]>> \o DigitRun(s, j + 1) ELSE <<>>

\* The digits token\s*[_\-]?\s*(\d+) captures when matched at position i.
NumberAfter(s, token, i) ==
    IF i + Len(token) - 1 <= Len(s) /\ SubSeq(s, i, i + Len(token) - 1) = token
    THEN DigitRun(s, SkipSeparator(s, i + Len(token)))
    ELSE <<>>

\* re.search(token\s*[_\-]?\s*(\d+), s): group 1 of the leftmost match, or
\* None.
SearchNumbered(s, token) ==
    LET hits == {i \in 1..Len(s) : NumberAfter(s, token, i) # <<>>}
    IN IF hits = {} THEN None
       ELSE NumberAfter(s, token, CHOOSE i \in hits : \A j \in hits : i <= j)

\* re.search(r'(\d+)', s): group 1 of the leftmost match, or None.
SearchDigits(s) ==
    LET hits == {i \in 1..Len(s) : IsDigit(s[i])}
    IN IF hits = {} THEN None
       ELSE DigitRun(s, CHOOSE i \in hits : \A j \in hits : i <= j)

QToken == <<"q">>
QuestionToken == <<"q", "u", "e", "s", "t", "i", "o", "n">>

\* 'q' in low or 'question' in low
MentionsQuestion(low) == InList("q", low)

\* Mutant of QuestionMatch: without the fallback of lines 141-144.
QuestionMatchAttached(low) ==
    LET m1 == SearchNumbered(low, QToken)
    IN IF m1 # None THEN m1 ELSE SearchNumbered(low, QuestionToken)

\* lines 139-144: m.group(1) of the match that numbers the column, or None.
QuestionMatch(low) ==
    LET m1 == SearchNumbered(low, QToken)
        m == IF m1 # None THEN m1 ELSE SearchNumbered(low, QuestionToken)
        m2 == SearchDigits(low)
    IN IF m # None THEN m
       ELSE IF m2 # None /\ MentionsQuestion(low) THEN m2
       ELSE None

\* lines 145-149: the column goes on the list qcols.
IsNumbered(fn) == QuestionMatch(Lower(fn)) # None

\* line 147: qnum
qnum(fn) == IntOf(QuestionMatch(Lower(fn)))

\* lines 151-152: the column goes on the list unordered.
IsUnordered(fn) == ~IsNumbered(fn) /\ MentionsQuestion(Lower(fn))

\* Mutant of qcols_sorted: the numbered columns are left in header order.
qcols_unsorted(qcols) == qcols

\* line 153: sorted(qcols, key=lambda x: x[1]), a stable sort.
RECURSIVE qcols_sorted(_)
qcols_sorted(qcols) ==
    IF qcols = <<>> THEN <<>>
    ELSE LET front == qcols_sorted(SubSeq(qcols, 1, Len(qcols) - 1))
             x == qcols[Len(qcols)]
             n == Cardinality({i \in 1..Len(front) : qnum(front[i]) <= qnum(x)})
         IN ListInsert(front, n, x)

\* lines 127-155
detect_question_columns(fieldnames) ==
    qcols_sorted(SelectSeq(fieldnames, IsNumbered))
        \o SelectSeq(fieldnames, IsUnordered)

\* Column names a header is made of: numbered ones (two of them with the
\* number 2), one that only mentions q, and one that is no question column.
ResolverColumns ==
    {NameCol, QKey(1), QKey(2), QKey(10), <<"q", Space, "2">>,
     <<"Q", "u", "i", "z">>}

ResolverHeaders == UNION {[1..n -> ResolverColumns] : n \in 0..MaxHeaderLen}

\* A first call detect_question_columns(fieldnames).
DetectQuestionColumns(fieldnames) ==
    /\ resolved = <<>>
    /\ resolved' = <<[fieldnames |-> fieldnames,
                      runs |-> <<detect_question_columns(fieldnames)>>]>>
    /\ UNCHANGED <<ledgerVars, writeVars, aggVars, scanVars, orderVars,
                   renderVars, batchVars, codecVars, textVars, classifyVars, downloadVars, editorVars>>

\* A second call on the same header.
DetectQuestionColumnsAgain ==
    /\ resolved # <<>>
    /\ Len(resolved[1].runs) = 1
    /\ resolved' = <<[resolved[1] EXCEPT
                        !.runs = Append(@, detect_question_columns(
                                               resolved[1].fieldnames))]>>
    /\ UNCHANGED <<ledgerVars, writeVars, aggVars, scanVars, orderVars,
                   renderVars, batchVars, codecVars, textVars, classifyVars, downloadVars, editorVars>>

NextResolve ==
    \/ \E fieldnames \in ResolverHeaders : DetectQuestionColumns(fieldnames)
    \/ DetectQuestionColumnsAgain


\* Column names: every string of up to MaxNameLen of the characters below,
\* and names as ledgers have them.
NameChars == {"q", "Q", "u", "2", Space, "_"}

ColumnNames ==
    UNION {[1..n -> NameChars] : n \in 0..MaxNameLen}
    \cup {<<"Q", "u", "e", "s", "t", "i", "o", "n", " ", "3">>,
          <<"Q", "u", "e", "s", "t", "i", "o", "n">>,
          <<"Q", "u", "i", "z", " ", "2">>,
          <<"N", "a", "m", "e">>,
          <<"2", " ", "m", "a", "r", "k", "s", " ", "q">>,
          <<"Q", "u", "e", "s", "t", "i", "o", "n", "_", "1", "0">>,
          <<"Q", "-", "1">>,
          <<"S", "e", "q", "1">>,
          <<"T", "o", "t", "a", "l", "2">>,
          <<"Q", " ", "1", " ", "o", "f", " ", "2">>}

\* detect_question_columns(<<fn, 'Q1'>>): how fn is taken and where it goes.
ClassifyColumn(fn) ==
    /\ classified = <<>>
    /\ classified' = <<[fn |-> fn,
                        numbered |-> IsNumbered(fn),
                        number |-> IF IsNumbered(fn) THEN qnum(fn) ELSE 0,
                        unordered |-> IsUnordered(fn),
                        placed |-> detect_question_columns(<<fn, QKey(1)>>)]>>
    /\ UNCHANGED <<ledgerVars, writeVars, aggVars, scanVars, orderVars,
                   renderVars, batchVars, codecVars, resolveVars, textVars,
                   downloadVars, editorVars>>

NextClassify == \E fn \in ColumnNames : ClassifyColumn(fn)

\* ------------------- the ledger scan (generate_termly_report.py 224-251)

\* Mutant of UnionQcols: the columns of the ledger go to the front.
UnionQcolsInFront(gq, qcols) ==
    qcols \o SelectSeq(gq, LAMBDA q : ~InList(q, qcols))

\* lines 249-251: the columns not yet on the global list are appended.
RECURSIVE UnionQcols(_, _)
UnionQcols(gq, qcols) ==
    IF qcols = <<>> THEN gq
    ELSE UnionQcols(IF InList(Head(qcols), gq) THEN gq ELSE Append(gq, Head(qcols)),
                    Tail(qcols))

\* The header rows of the ledgers scanned.
ScanHeaders ==
    {<<>>,
     <<NameCol, QKey(1), QKey(2)>>,
     <<NameCol, FeedbackCol, OverallCol, QKey(2), QKey(1)>>,
     <<NameCol, QKey(3), QKey(1)>>,
     <<NameCol, <<"q", Space, "2">>, <<"Q", "u", "i", "z">>>>,
     <<NameCol, <<"Q", "u", "i", "z">>, QKey(10), QKey(2)>>,
     <<NameCol, QKey(2), <<"q", "2">>, OverallCol>>}

\* lines 202-208: find_all_grades_files returns n ledgers, sorted by number
\* (none: the run exits at line 206).
FindFiles(n) ==
    /\ scan_pc = "start"
    /\ n_files' = n
    /\ scan_pc' = "scanning"
    /\ UNCHANGED <<assignments, global_qcols, ledgerVars, writeVars, aggVars, orderVars, renderVars, batchVars, codecVars, resolveVars, textVars, classifyVars, downloadVars, editorVars>>

\* lines 227-251: the next ledger is opened and read; its question columns
\* join the global list.
ScanLedger(fieldnames) ==
    /\ scan_pc = "scanning"
    /\ Len(assignments) < n_files
    /\ LET qcols == detect_question_columns(fieldnames)
       IN /\ assignments' = Append(assignments,
                [number |-> Len(assignments) + 1, fieldnames |-> fieldnames,
                 qcols |-> qcols])
          /\ global_qcols' = UnionQcols(global_qcols, qcols)
    /\ UNCHANGED <<scan_pc, n_files, ledgerVars, writeVars, aggVars, orderVars, renderVars, batchVars, codecVars, resolveVars, textVars, classifyVars, downloadVars, editorVars>>

\* line 228 or 230-236: opening or reading the next ledger raises (OSError,
\* UnicodeDecodeError, csv.Error).  Nothing catches it: main ends with the
\* traceback, no report is written.
ScanLedgerFails ==
    /\ scan_pc = "scanning"
    /\ Len(assignments) < n_files
    /\ scan_pc' = "aborted"
    /\ UNCHANGED <<n_files, assignments, global_qcols, ledgerVars, writeVars, aggVars, orderVars, renderVars, batchVars, codecVars, resolveVars, textVars, classifyVars, downloadVars, editorVars>>

\* lines 253-408: every ledger is scanned; the index is built and the report
\* written.
WriteReport ==
    /\ scan_pc = "scanning"
    /\ Len(assignments) = n_files
    /\ scan_pc' = "reported"
    /\ UNCHANGED <<n_files, assignments, global_qcols, ledgerVars, writeVars, aggVars, orderVars, renderVars, batchVars, codecVars, resolveVars, textVars, classifyVars, downloadVars, editorVars>>

NextScan ==
    \/ \E n \in 1..MaxLedgers : FindFiles(n)
    \/ \E h \in ScanHeaders : ScanLedger(h)
    \/ ScanLedgerFails
    \/ WriteReport


\* ------------------ grade symbols (map_overall_to_symbols, three copies)

\* The character U+00B2 (superscript two): str.isdigit() accepts it, int()
\* does not.
SuperscriptTwo == "sup2"

\* the mapping of lines 29-39 (the same in the three copies)
mapping ==
    (1 :> <<"\\", "a", "l", "p", "h", "a", " ", "+">>) @@
    (2 :> <<"\\", "a", "l", "p", "h", "a">>) @@
    (3 :> <<"\\", "a", "l", "p", "h", "a", " ", "\\", "b", "e", "t", "a">>) @@
    (4 :> <<"\\", "b", "e", "t", "a", "\\", "a", "l", "p", "h", "a">>) @@
    (5 :> <<"\\", "b", "e", "t", "a">>) @@
    (6 :> <<"\\", "b", "e", "t", "a", "\\", "g", "a", "m", "m", "a">>) @@
    (7 :> <<"\\", "g", "a", "m", "m", "a", "\\", "b", "e", "t", "a">>) @@
    (8 :> <<"\\", "g", "a", "m", "m", "a">>) @@
    (9 :> <<"\\", "g", "a", "m", "m", "a", "-">>)

\* A Python value handed to the codec: None, an int or a str.
PyNone == [kind |-> "None", int |-> 0, str |-> <<>>]
PyInt(n) == [kind |-> "int", int |-> n, str |-> <<>>]
PyStr(s) == [kind |-> "str", int |-> 0, str |-> s]

\* What a call yields: the tuple returned, or the exception raised.
Returns(latex, mapped) == [raised |-> "", latex |-> latex, mapped |-> mapped]
Raises(exc) == [raised |-> exc, latex |-> <<>>, mapped |-> FALSE]

\* str(n) for an int n
StrOfInt(n) == IF n < 0 THEN <<"-">> \o StrOfNat(0 - n) ELSE StrOfNat(n)

\* s.isdigit()
isdigit(s) ==
    s # <<>> /\ \A i \in 1..Len(s) : IsDigit(s[i]) \/ s[i] = SuperscriptTwo

\* int(s) raises ValueError for a string s.isdigit() accepts
IntRaises(s) == \E i \in 1..Len(s) : s[i] = SuperscriptTwo

\* The part of the codec after the int branch, the same in the three copies
\* (generate_termly_report.py lines 47-52).
MapString(overall) ==
    LET text == IF overall.kind = "None" THEN <<>> ELSE overall.str
        s == Strip(text)
    IN IF isdigit(s)
       THEN IF IntRaises(s) THEN Raises("ValueError")
            ELSE IF IntOf(s) \in DOMAIN mapping
            THEN Returns(mapping[IntOf(s)], TRUE)
            ELSE Returns(text, FALSE)
       ELSE Returns(text, FALSE)

\* The int branch (generate_termly_report.py lines 42-45).
MapInt(n) ==
    IF n \in DOMAIN mapping THEN Returns(mapping[n], TRUE)
    ELSE Returns(StrOfInt(n), FALSE)

\* generate_termly_report.py lines 28-52
map_overall_to_symbols(overall) ==
    IF overall.kind = "None" THEN Returns(<<>>, FALSE)
    ELSE IF overall.kind = "int" THEN MapInt(overall.int)
    ELSE MapString(overall)

\* generate_summary.py lines 25-47: no branch for None
summary_map_overall_to_symbols(overall) ==
    IF overall.kind = "int" THEN MapInt(overall.int) ELSE MapString(overall)

\* attach_comments.py lines 33-65: no branch for None
attach_map_overall_to_symbols(overall) ==
    IF overall.kind = "int" THEN MapInt(overall.int) ELSE MapString(overall)

\* unicodedata.normalize("NFKD", s) on one character
NFKD(c) == IF c = SuperscriptTwo THEN "2" ELSE c

\* generate_termly_report.py lines 63-76: replacements.get(ch, ch)
replacements(c) ==
    IF c = "\\" THEN <<"\\", "t", "e", "x", "t", "b", "a", "c", "k", "s", "l", "a", "s", "h", "{", "}">>
    ELSE IF c = "&" THEN <<"\\", "&">>
    ELSE IF c = "%" THEN <<"\\", "%">>
    ELSE IF c = "$" THEN <<"\\", "$">>
    ELSE IF c = "#" THEN <<"\\", "#">>
    ELSE IF c = "_" THEN <<"\\", "_">>
    ELSE IF c = "{" THEN <<"\\", "{">>
    ELSE IF c = "}" THEN <<"\\", "}">>
    ELSE IF c = "~" THEN <<"\\", "t", "e", "x", "t", "a", "s", "c", "i", "i", "t", "i", "l", "d", "e", "{", "}">>
    ELSE IF c = "^" THEN <<"\\", "^", "{", "}">>
    ELSE IF c = "<" THEN <<"\\", "t", "e", "x", "t", "l", "e", "s", "s", "{", "}">>
    ELSE IF c = ">" THEN <<"\\", "t", "e", "x", "t", "g", "r", "e", "a", "t", "e", "r", "{", "}">>
    ELSE <<c>>

\* generate_termly_report.py lines 55-80, for a str
RECURSIVE latex_escape(_)
latex_escape(s) ==
    IF s = <<>> THEN <<>>
    ELSE replacements(NFKD(Head(s))) \o latex_escape(Tail(s))

\* An exception that leaves a function in place of its value (no string has
\* a ten-letter character).
ValueError == <<"ValueError">>

\* generate_termly_report.py lines 180-186, for a str raw_val: the cell, or
\* the exception of the codec.
safe_overall_cell(raw_val) ==
    LET r == map_overall_to_symbols(PyStr(raw_val))
    IN IF r.raised # "" THEN ValueError
       ELSE IF r.mapped /\ r.latex # <<>> THEN <<"$">> \o r.latex \o <<"$">>
       ELSE latex_escape(raw_val)

\* The values handed to the codec: None, the ints from -1 to MaxOverallInt
\* and the strings of up to MaxOverallLen characters.
OverallChars == {"0", "1", "3", "n", Space, SuperscriptTwo}

OverallStrings == UNION {[1..n -> OverallChars] : n \in 0..MaxOverallLen}

CodecInputs ==
    {PyNone} \cup {PyInt(n) : n \in (0 - 1)..MaxOverallInt}
             \cup {PyStr(s) : s \in OverallStrings}

\* The three files that define map_overall_to_symbols.
CodecCopies == {"generate_termly_report", "generate_summary", "attach_comments"}

\* One call of the copy's map_overall_to_symbols(overall).
ApplyCodec(copy, overall) ==
    /\ codec = <<>>
    /\ codec' = <<[copy |-> copy,
                   overall |-> overall,
                   result |-> IF copy = "generate_termly_report"
                              THEN map_overall_to_symbols(overall)
                              ELSE IF copy = "generate_summary"
                              THEN summary_map_overall_to_symbols(overall)
                              ELSE attach_map_overall_to_symbols(overall)]>>
    /\ UNCHANGED <<ledgerVars, writeVars, aggVars, scanVars, orderVars,
                   renderVars, batchVars, resolveVars, textVars, classifyVars, downloadVars, editorVars>>

NextCodec ==
    \E copy \in CodecCopies, overall \in CodecInputs : ApplyCodec(copy, overall)


\* ------------- one whole report run (generate_termly_report.py 83-282)

\* x in s, for strings
Contains(s, sub) ==
    \E i \in 0..(Len(s) - Len(sub)) : SubSeq(s, i + 1, i + Len(sub)) = sub

\* re.match(r'^grades(\d+)\.csv$', name, re.IGNORECASE): group 1, or None
GradesFileMatch(name) ==
    LET low == Lower(name)
        mid == SubSeq(low, 7, Len(low) - 4)
    IN IF /\ Len(low) >= 11
          /\ SubSeq(low, 1, 6) = <<"g", "r", "a", "d", "e", "s">>
          /\ SubSeq(low, Len(low) - 3, Len(low)) = <<".", "c", "s", "v">>
          /\ \A i \in 1..Len(mid) : IsDigit(mid[i])
       THEN mid
       ELSE None

\* lines 85-90: the (number, path) pairs of the ledgers, in listing order
RECURSIVE candidates(_)
candidates(listing) ==
    IF listing = <<>> THEN <<>>
    ELSE LET m == GradesFileMatch(Head(listing))
         IN (IF m # None THEN <<<<IntOf(m), Head(listing)>>>> ELSE <<>>)
                \o candidates(Tail(listing))

\* line 93: candidates.sort(key=lambda x: x[0]), a stable sort
RECURSIVE SortedByNumber(_)
SortedByNumber(cands) ==
    IF cands = <<>> THEN <<>>
    ELSE LET front == SortedByNumber(SubSeq(cands, 1, Len(cands) - 1))
             x == cands[Len(cands)]
             n == Cardinality({i \in 1..Len(front) : front[i][1] <= x[1]})
         IN ListInsert(front, n, x)

\* lines 83-94; the empty list stands for FileNotFoundError
find_all_grades_files(listing) == SortedByNumber(candidates(listing))

\* lines 114-117: lowered[cand_low] is the last column with that lowercase
\* name; lines 119-123: the first column that contains cand_low.
choose_column(fieldnames, possible_names) ==
    LET exact == {c \in 1..Len(possible_names) :
                    \E f \in 1..Len(fieldnames) :
                        Lower(fieldnames[f]) = Lower(possible_names[c])}
        within == {c \in 1..Len(possible_names) :
                    \E f \in 1..Len(fieldnames) :
                        Contains(Lower(fieldnames[f]), Lower(possible_names[c]))}
    IN IF fieldnames = <<>> THEN None
       ELSE IF exact # {}
       THEN LET c == CHOOSE x \in exact : \A y \in exact : x <= y
                fs == {f \in 1..Len(fieldnames) :
                        Lower(fieldnames[f]) = Lower(possible_names[c])}
            IN fieldnames[CHOOSE f \in fs : \A g \in fs : g <= f]
       ELSE IF within # {}
       THEN LET c == CHOOSE x \in within : \A y \in within : x <= y
                fs == {f \in 1..Len(fieldnames) :
                        Contains(Lower(fieldnames[f]), Lower(possible_names[c]))}
            IN fieldnames[CHOOSE f \in fs : \A g \in fs : f <= g]
       ELSE None

\* lines 231-234: the names main asks choose_column for
NameCandidates ==
    <<<<"N", "a", "m", "e">>,
      <<"S", "t", "u", "d", "e", "n", "t">>,
      <<"F", "u", "l", "l", " ", "N", "a", "m", "e">>,
      <<"S", "t", "u", "d", "e", "n", "t", " ", "N", "a", "m", "e">>>>
IdCandidates ==
    <<<<"I", "D">>,
      <<"S", "t", "u", "d", "e", "n", "t", "I", "D">>,
      <<"S", "t", "u", "d", "e", "n", "t", " ", "I", "d">>,
      <<"S", "t", "u", "d", "e", "n", "t", " ", "N", "u", "m", "b", "e", "r">>,
      <<"U", "s", "e", "r", "n", "a", "m", "e">>>>
OverallCandidates ==
    <<<<"O", "v", "e", "r", "a", "l", "l">>,
      <<"O", "v", "e", "r", "a", "l", "l", " ", "g", "r", "a", "d", "e">>,
      <<"G", "r", "a", "d", "e">>>>
FeedbackCandidates ==
    <<<<"F", "e", "e", "d", "b", "a", "c", "k">>,
      <<"C", "o", "m", "m", "e", "n", "t", "s">>,
      <<"C", "o", "m", "m", "e", "n", "t">>,
      <<"I", "n", "s", "t", "r", "u", "c", "t", "o", "r", " ", "C", "o", "m", "m", "e", "n", "t", "s">>>>

\* lines 228-246: the entry of assignments for the ledger with these csv
\* records, found as candidate cand.
AssignmentEntry(cand, records) ==
    LET fieldnames == IF records = <<>> THEN <<>> ELSE records[1]
        data == SelectSeq(Tail(records), IsDataRecord)
    IN [number |-> cand[1],
        path_name |-> cand[2],
        fieldnames |-> fieldnames,
        name_col |-> choose_column(fieldnames, NameCandidates),
        id_col |-> choose_column(fieldnames, IdCandidates),
        overall_col |-> choose_column(fieldnames, OverallCandidates),
        feedback_col |-> choose_column(fieldnames, FeedbackCandidates),
        qcols |-> detect_question_columns(fieldnames),
        rows |-> [i \in 1..Len(data) |-> DictReaderRow(fieldnames, data[i])]]

\* lines 260-279: the index after row i of assignment a and those after it.
RECURSIVE IndexRows(_, _, _)
IndexRows(studs, a, i) ==
    IF i > Len(a.rows) THEN studs
    ELSE LET row == a.rows[i]
             raw_name == RawCell(DictGet(row, a.name_col), a.name_col # None)
             raw_id == RawCell(DictGet(row, a.id_col), a.id_col # None)
             key == StudentKeyIn(raw_name, raw_id, a.path_name, Len(studs))
             entry == [row |-> row,
                       name_col |-> a.name_col,
                       overall_col |-> a.overall_col,
                       feedback_col |-> a.feedback_col,
                       qcols |-> a.qcols]
         IN IndexRows(IndexedStudents(studs, key, raw_name, raw_id, a.number, entry),
                      a, i + 1)

\* lines 255-279: the index built from the assignments, in their order.
RECURSIVE IndexAssignments(_, _)
IndexAssignments(studs, assigns) ==
    IF assigns = <<>> THEN studs
    ELSE IndexAssignments(IndexRows(studs, Head(assigns), 1), Tail(assigns))

\* lines 249-251 over all assignments
RECURSIVE GlobalQcols(_, _)
GlobalQcols(gq, assigns) ==
    IF assigns = <<>> THEN gq
    ELSE GlobalQcols(UnionQcols(gq, Head(assigns).qcols), Tail(assigns))

\* The characters in ascending code point: the order of str comparison.
CodePoints ==
    <<Tab, Space, "(", ")", "-", ".">> \o DigitChars \o UpperLetters
        \o <<"_">> \o LowerLetters

ord(c) == CHOOSE i \in 1..Len(CodePoints) : CodePoints[i] = c

\* s <= t for strings
StrLessEq(s, t) ==
    LET n == IF Len(s) < Len(t) THEN Len(s) ELSE Len(t)
        d == {i \in 1..n : s[i] # t[i]}
    IN IF d = {} THEN Len(s) <= Len(t)
       ELSE LET i == CHOOSE x \in d : \A y \in d : x <= y
            IN ord(s[i]) < ord(t[i])

\* line 282: sorted(students.items(), key=display_name.lower()), a stable
\* sort.
RECURSIVE sorted_students(_)
sorted_students(studs) ==
    IF studs = <<>> THEN <<>>
    ELSE LET front == sorted_students(SubSeq(studs, 1, Len(studs) - 1))
             x == studs[Len(studs)]
             n == Cardinality({i \in 1..Len(front) :
                    StrLessEq(Lower(front[i].display_name), Lower(x.display_name))})
         IN ListInsert(front, n, x)

\* The files of the course directory and the csv records each holds.
Grades1 == <<"g", "r", "a", "d", "e", "s", "1", ".", "c", "s", "v">>
Grades01 == <<"g", "r", "a", "d", "e", "s", "0", "1", ".", "c", "s", "v">>
Grades2 == <<"G", "r", "a", "d", "e", "s", "2", ".", "c", "s", "v">>
NotesTxt == <<"n", "o", "t", "e", "s", ".", "t", "x", "t">>

DirFiles == {Grades1, Grades01, Grades2, NotesTxt}

RecordsOf(path_name) ==
    IF path_name = Grades1
    THEN <<<<NameCol, QKey(1)>>, <<<<"a", Space, "b">>, GradeValue>>>>
    ELSE IF path_name = Grades01
    THEN <<<<NameCol, QKey(2)>>, <<<<"A", Space, "b">>, OverallValue>>>>
    ELSE IF path_name = Grades2
    THEN <<<<NameCol, OverallCol, QKey(2), QKey(1)>>,
           <<<<"c">>, OverallValue, GradeValue, <<>>>>,
           <<<<"a", Space, Space, "b">>, <<>>, <<>>, GradeValue>>>>
    ELSE <<>>

\* What a run yields that lists the directory in the order listing: the
\* global question columns and the students, sorted (lines 202-282).
ReportOf(listing) ==
    LET cands == find_all_grades_files(listing)
        assigns == [i \in 1..Len(cands) |->
                        AssignmentEntry(cands[i], RecordsOf(cands[i][2]))]
    IN [found |-> cands # <<>>,
        global_qcols |-> GlobalQcols(<<>>, assigns),
        sorted_students |-> sorted_students(IndexAssignments(<<>>, assigns))]

\* The orders in which iterdir() can list the files fs.
Listings(fs) ==
    {l \in [1..Cardinality(fs) -> fs] : \A i, j \in DOMAIN l : i # j => l[i] # l[j]}

\* One run of the report over the directory, which lists its files in the
\* order listing; the directory is the same in every run.
RunReport(listing) ==
    /\ Len(runs) < MaxRuns
    /\ runs # <<>> => {listing[i] : i \in DOMAIN listing}
                        = {runs[1].listing[i] : i \in DOMAIN runs[1].listing}
    /\ runs' = Append(runs, [listing |-> listing, report |-> ReportOf(listing)])
    /\ UNCHANGED <<ledgerVars, writeVars, aggVars, scanVars, renderVars, batchVars,
                   codecVars, resolveVars, textVars, classifyVars, downloadVars, editorVars>>

NextOrder ==
    \E fs \in (SUBSET DirFiles) \ {{}} : \E listing \in Listings(fs) :
        RunReport(listing)


\* ------------------- the report body (generate_termly_report.py 327-396)

\* line 328
any_overall(st) ==
    \E n \in DOMAIN st.assignments : st.assignments[n].overall_col # None

\* lines 348-357: the cell of question column q in the row, '' without one
QuestionValue(row, q) ==
    LET same == {i \in 1..Len(row) :
                    /\ row[i][1] # None
                    /\ row[i][1] # <<>>
                    /\ Lower(row[i][1]) = Lower(q)}
    IN IF HasKey(row, q) THEN Strip(OrEmpty(DictGet(row, q)))
       ELSE IF same # {}
       THEN Strip(OrEmpty(row[CHOOSE i \in same : \A j \in same : i <= j][2]))
       ELSE <<>>

\* lines 337-369: the cells of the student's marks row for assignment num
MarksCells(st, num, gq) ==
    <<latex_escape(StrOfNat(num))>> \o
    (IF num \in DOMAIN st.assignments
     THEN LET ar == st.assignments[num]
          IN (IF any_overall(st)
              THEN <<IF ar.overall_col # None
                     THEN safe_overall_cell(Strip(OrEmpty(DictGet(ar.row, ar.overall_col))))
                     ELSE <<>>>>
              ELSE <<>>)
             \o [i \in 1..Len(gq) |-> safe_overall_cell(QuestionValue(ar.row, gq[i]))]
     ELSE (IF any_overall(st) THEN <<<<>>>> ELSE <<>>)
             \o [i \in 1..Len(gq) |-> <<>>])

\* " & ".join(cells)
RECURSIVE JoinCells(_)
JoinCells(cells) ==
    IF cells = <<>> THEN <<>>
    ELSE IF Len(cells) = 1 THEN cells[1]
    ELSE cells[1] \o <<" ", "&", " ">> \o JoinCells(Tail(cells))

\* line 370: the line of the table, or the exception a cell raised
MarksLine(st, num, gq) ==
    LET cells == MarksCells(st, num, gq)
    IN IF \E i \in 1..Len(cells) : cells[i] = ValueError THEN ValueError
       ELSE JoinCells(cells) \o <<" ", "\\", "\\", "\n">>

NoFeedbackText == <<"\\", "e", "m", "p", "h", "{", "(", "n", "o", " ", "f", "e", "e", "d", "b", "a", "c", "k", ")", "}">>
NoSubmissionText == <<"\\", "e", "m", "p", "h", "{", "(", "n", "o", " ", "s", "u", "b", "m", "i", "s", "s", "i", "o", "n", ")", "}">>

\* r"\textbf{Problem Sheet %s} \\ " % latex_escape(str(num))
ProblemSheet(num) ==
    <<"\\", "t", "e", "x", "t", "b", "f", "{", "P", "r", "o", "b", "l", "e", "m", " ", "S", "h", "e", "e", "t", " ">>
        \o latex_escape(StrOfNat(num)) \o <<"}", " ", "\\", "\\", " ">>

\* Where the leftmost match of \n\s*\n in s starts and ends (<<0, 0>>: no
\* match): \s* is greedy, the match ends at the last newline of the
\* whitespace run.
ParagraphBreak(s) ==
    LET ends(i) == {k \in (i + 1)..Len(s) :
                        /\ s[k] = Newline
                        /\ \A j \in (i + 1)..(k - 1) : IsSpace(s[j])}
        starts == {i \in 1..Len(s) : s[i] = Newline /\ ends(i) # {}}
    IN IF starts = {} THEN <<0, 0>>
       ELSE LET i == CHOOSE x \in starts : \A y \in starts : x <= y
            IN <<i, CHOOSE k \in ends(i) : \A l \in ends(i) : l <= k>>

\* line 388: re.split(r'\n\s*\n', fb_safe)
RECURSIVE SplitParagraphs(_)
SplitParagraphs(s) ==
    LET b == ParagraphBreak(s)
    IN IF b[1] = 0 THEN <<s>>
       ELSE <<SubSeq(s, 1, b[1] - 1)>> \o SplitParagraphs(SubSeq(s, b[2] + 1, Len(s)))

\* line 388: [p.strip() for p in ... if p.strip()]
paragraphs(fb_safe) ==
    LET parts == SplitParagraphs(fb_safe)
        stripped == [i \in 1..Len(parts) |-> Strip(parts[i])]
    IN SelectSeq(stripped, LAMBDA p : p # <<>>)

\* lines 391-392: \r\n and \r become \n, then every \n becomes \\ and a space
RECURSIVE LineBreaks(_)
LineBreaks(p) ==
    IF p = <<>> THEN <<>>
    ELSE IF Len(p) >= 2 /\ p[1] = CarriageReturn /\ p[2] = Newline
    THEN <<"\\", "\\", " ">> \o LineBreaks(SubSeq(p, 3, Len(p)))
    ELSE IF p[1] \in {CarriageReturn, Newline}
    THEN <<"\\", "\\", " ">> \o LineBreaks(Tail(p))
    ELSE <<p[1]>> \o LineBreaks(Tail(p))

\* Mutant of FeedbackLines: an assignment without a row is reported like a
\* row without feedback.
FeedbackLinesMissingAsBlank(st, num) ==
    <<ProblemSheet(num), NoFeedbackText \o <<Newline, Newline>>>>

\* lines 377-395: what the student's feedback section gets for assignment num
FeedbackLines(st, num) ==
    IF num \in DOMAIN st.assignments
    THEN LET ar == st.assignments[num]
             fb_raw == IF ar.feedback_col # None
                       THEN Strip(OrEmpty(DictGet(ar.row, ar.feedback_col)))
                       ELSE <<>>
             fb_safe == IF fb_raw = <<>> THEN NoFeedbackText ELSE fb_raw
             ps == paragraphs(fb_safe)
         IN <<ProblemSheet(num)>>
                \o [i \in 1..Len(ps) |-> LineBreaks(ps[i]) \o <<Newline, Newline>>]
    ELSE <<ProblemSheet(num) \o NoSubmissionText \o <<Newline, Newline>>>>

\* line 396: "\n".join(fb_lines), for the lines of one assignment
RECURSIVE JoinLines(_)
JoinLines(lines) ==
    IF lines = <<>> THEN <<>>
    ELSE IF Len(lines) = 1 THEN lines[1]
    ELSE lines[1] \o <<Newline>> \o JoinLines(Tail(lines))

FeedbackText(st, num) == JoinLines(FeedbackLines(st, num))


\* The header rows of grades1.csv and of grades2.csv.
Ledger1Headers ==
    {<<NameCol, FeedbackCol, OverallCol, QKey(1)>>,
     <<NameCol, QKey(1)>>,
     <<NameCol, QKey(2)>>}

Ledger2Headers ==
    {<<NameCol, FeedbackCol, OverallCol, QKey(1)>>,
     <<NameCol, OverallCol, QKey(1)>>,
     <<NameCol, FeedbackCol, QKey(1)>>,
     <<NameCol, FeedbackCol, OverallCol>>,
     <<NameCol>>}

OverallCells == {<<>>, OverallValue, <<Space>>}
QuestionCells == {<<>>, GradeValue}
FeedbackCells == {<<>>, FeedbackValue, <<"g", Newline, Space, Newline, "h", Newline, "i">>}

\* The row of grades1.csv for the student called name: every cell filled.
Ledger1Row(header, name) ==
    [i \in 1..Len(header) |->
        IF header[i] = NameCol THEN name
        ELSE IF header[i] = FeedbackCol THEN <<"g">>
        ELSE IF header[i] = OverallCol THEN OverallValue
        ELSE GradeValue]

\* The rows grades2.csv can hold for student 'a' under header.
Ledger2Rows(header) ==
    {r \in [1..Len(header) -> {<<"a">>} \cup OverallCells \cup QuestionCells \cup FeedbackCells] :
        \A i \in 1..Len(header) :
            r[i] \in (IF header[i] = NameCol THEN {<<"a">>}
                      ELSE IF header[i] = OverallCol THEN OverallCells
                      ELSE IF header[i] = FeedbackCol THEN FeedbackCells
                      ELSE QuestionCells)}

\* lines 224-396 for a course of two ledgers: grades1.csv has a row for 'a'
\* and one for 'c', Grades2.csv has row2, a row for 'a'.
RenderReport(h1, h2, row2) ==
    /\ rendered = <<>>
    /\ \E assigns \in
            {<<AssignmentEntry(<<1, Grades1>>,
                    <<h1, Ledger1Row(h1, <<"a">>), Ledger1Row(h1, <<"c">>)>>),
               AssignmentEntry(<<2, Grades2>>, <<h2, row2>>)>>} :
       \E gq \in {GlobalQcols(<<>>, assigns)},
          studs \in {sorted_students(IndexAssignments(<<>>, assigns))} :
          rendered' =
            <<[global_qcols |-> gq,
               sorted_students |-> studs,
               marks |-> [i \in 1..Len(studs) |->
                            [n \in 1..2 |-> MarksLine(studs[i], n, gq)]],
               feedback |-> [i \in 1..Len(studs) |->
                            [n \in 1..2 |-> FeedbackText(studs[i], n)]]]>>
    /\ UNCHANGED <<ledgerVars, writeVars, aggVars, scanVars, orderVars, batchVars,
                   codecVars, resolveVars, textVars, classifyVars, downloadVars, editorVars>>

NextRender ==
    \E h1 \in Ledger1Headers, h2 \in Ledger2Headers :
        \E row2 \in Ledger2Rows(h2) : RenderReport(h1, h2, row2)


\* --------------------------------- the marking loop (mark.py 300-347)

\* The students find_submission_pdfs can return, in its order.
AllSubmissions == <<<<"a">>, <<"b">>, <<"c">>, <<"d">>>>

\* line 300
submissions == SubSeq(AllSubmissions, 1, MaxSubmissions)

\* lines 320-334: the grades dict built from the marker's answers: Name,
\* Q1..Qk for the k answers before the blank one, Overall, Feedback.
grades(student, k, overall, feedback) ==
    <<<<NameCol, student>>>>
        \o [i \in 1..k |-> <<QKey(i), GradeValue>>]
        \o <<<<OverallCol, overall>>, <<FeedbackCol, feedback>>>>

\* lines 305-344: the next submission is marked and its row stored.
MarkSubmission(k, overall, feedback) ==
    /\ batch_pc = "marking"
    /\ marked < Len(submissions)
    /\ LET g == grades(submissions[marked + 1], k, overall, feedback)
       IN /\ file' = FileOf(append_grades_row(file, g))
          /\ new_row' = g
    /\ prev' = file
    /\ calls' = calls + 1
    /\ marked' = marked + 1
    /\ UNCHANGED <<batch_pc, writeVars, aggVars, scanVars, orderVars, renderVars,
                   codecVars, resolveVars, textVars, classifyVars, downloadVars, editorVars>>

\* line 336: append_grades_row raises an OSError, at the open for reading
\* (line 56: the ledger stays) or during the write (lines 126-131: the ledger
\* is left truncated).  Nothing in main catches it: the loop and the run end.
MarkSubmissionFails ==
    /\ batch_pc = "marking"
    /\ marked < Len(submissions)
    /\ batch_pc' = "aborted"
    /\ \/ file' = file
       \/ file.exists /\ file' = FileOf(<<>>)
    /\ UNCHANGED <<prev, new_row, calls, marked, writeVars, aggVars, scanVars,
                   orderVars, renderVars, codecVars, resolveVars, textVars, classifyVars, downloadVars, editorVars>>

\* line 346: the loop has gone through every submission.
DoneMarking ==
    /\ batch_pc = "marking"
    /\ marked = Len(submissions)
    /\ batch_pc' = "done"
    /\ UNCHANGED <<ledgerVars, marked, writeVars, aggVars, scanVars, orderVars,
                   renderVars, codecVars, resolveVars, textVars, classifyVars, downloadVars, editorVars>>

NextBatch ==
    \/ \E k \in 0..2, overall \in {<<>>, OverallValue}, feedback \in {<<>>, <<"g">>} :
            MarkSubmission(k, overall, feedback)
    \/ MarkSubmissionFails
    \/ DoneMarking


\* ------------- append_grades_row on the csv text (mark.py 53-63, 125-131)

\* Feedback values of the calls: plain, with surrounding whitespace, and with
\* the characters the csv writer quotes.
FeedbackTexts ==
    {<<>>, <<"g">>, <<Space, "g">>, <<"g", Space>>, <<"x", Comma, "y">>,
     <<Quote>>, <<"l", Newline, "m">>, <<Quote, "q", Quote, CarriageReturn>>}

TextRows ==
    {<<(<<NameCol, n>>), (<<OverallCol, OverallValue>>), (<<FeedbackCol, fb>>)>> :
        n \in {<<"a">>, <<"b">>}, fb \in FeedbackTexts}

\* mark.py lines 56-58: the file as csv.DictReader finds it.
FileOfText(st) ==
    IF st.exists THEN FileOf(CsvRecords(st.text)) ELSE NoFile

\* One call of append_grades_row: the file is read from its text, and the
\* records handed to the writer become its new text.
ApplyUpdateText(nr) ==
    /\ stored.calls < MaxCalls
    /\ \E recs \in {append_grades_row(FileOfText(stored), nr)} :
          stored' = [exists |-> TRUE, text |-> CsvText(recs), handed |-> recs,
                     calls |-> stored.calls + 1]
    /\ UNCHANGED <<ledgerVars, writeVars, aggVars, scanVars, orderVars,
                   renderVars, batchVars, codecVars, resolveVars, classifyVars, downloadVars, editorVars>>

NextText == \E nr \in TextRows : ApplyUpdateText(nr)

\* --------- a ledger from its creation (download_new_assignment.py main)

\* The students of studentlist.csv whose remote folder holds a file, in the
\* order of the list.
SubmittedStudents == {<<>>, <<(<<"a">>)>>, <<(<<"b">>)>>, <<(<<"a">>), (<<"b">>)>>}

\* modtime.isoformat() if modtime else ''
SubmissionTimes == {<<>>, <<"2", "0", "2", "5">>}

\* download_new_assignment.py line 211: the record written for a student.
SubmissionRecord(s, submission_time_str) ==
    <<s, submission_time_str, <<>>, <<>>, <<>>>>

\* download_new_assignment.py lines 152-156 and 160-211: the header, then
\* one record per student with a submission.
DownloadNewAssignment(studs, submission_time_str) ==
    /\ ~file.exists
    /\ file' = FileOf(<<base_columns>>
                      \o [i \in 1..Len(studs) |->
                             SubmissionRecord(studs[i], submission_time_str)])
    /\ prev' = file
    /\ UNCHANGED <<new_row, calls, writeVars, aggVars, reportVars>>

\* A call of append_grades_row on the ledger download_new_assignment made.
ApplyUpdateCreated(nr) == file.exists /\ ApplyUpdate(nr)

\* The calls mark.py makes: Name, the marks of some questions, Overall and
\* Feedback.
MarkRows ==
    {GradesDict(n, qs, TRUE, TRUE) : n \in NameValues, qs \in SUBSET QNumbers}

NextCreate ==
    \/ \E studs \in SubmittedStudents, t \in SubmissionTimes :
          DownloadNewAssignment(studs, t)
    \/ \E nr \in MarkRows : ApplyUpdateCreated(nr)

\* ------ the ledgers of a course (download_new_assignment.py 31-32, 137-156)

\* The names of the ledgers of the course directory.
GradesNames(ls) == {PathName(n) : n \in DOMAIN ls}

\* download_new_assignment.py line 32: sorted(course_dir.glob('grades*.csv')),
\* paths of one directory in the order of their names; [-1] is the greatest.
LastGradesName(ls) ==
    CHOOSE x \in GradesNames(ls) : \A y \in GradesNames(ls) : StrLessEq(y, x)

\* line 145: re.search(r'grades(\d+)\.csv', last), group 1 as an int.
NumberOfName(name) == IntOf(SubSeq(name, 7, Len(name) - 4))

\* lines 138-149
assign_no(ls) ==
    IF DOMAIN ls = {} THEN 1 ELSE NumberOfName(LastGradesName(ls)) + 1

\* lines 137-156 and 211: one run. grades<assign_no>.csv is opened with 'w',
\* which creates it or truncates it, and gets the header and a record per
\* student with a submission.
DownloadRun(studs) ==
    /\ downloads < MaxDownloads
    /\ downloads' = downloads + 1
    /\ ledgers' = (assign_no(ledgers) :>
                      [run |-> downloads + 1,
                       records |-> <<base_columns>>
                           \o [i \in 1..Len(studs) |->
                                  SubmissionRecord(studs[i], <<>>)]])
                  @@ ledgers
    /\ UNCHANGED <<ledgerVars, writeVars, aggVars, scanVars, orderVars,
                   renderVars, batchVars, codecVars, resolveVars, textVars,
                   classifyVars, editorVars>>

NextDownload == \E studs \in {<<>>, <<(<<"a">>)>>} : DownloadRun(studs)

\* ------------------------------------- the grade editor (editgrades.py)

\* editgrades.py lines 64-72 and 176-183: Name, SubmissionTime, then Overall
\* and Q1..Q6, those the header has.
display_cols(headers) ==
    SelectSeq(<<NameCol, SubmissionTimeCol, OverallCol,
                QKey(1), QKey(2), QKey(3), QKey(4), QKey(5), QKey(6)>>,
              LAMBDA c : InList(c, headers))

\* lines 43-46: the header and the rows of csv.DictReader, nothing stripped.
LoadedRows(records) ==
    LET data == SelectSeq(Tail(records), IsDataRecord)
    IN [i \in 1..Len(data) |-> DictReaderRow(records[1], data[i])]

\* lines 80-82: the values of a row shown in the table.
ListStoreRow(row, headers) ==
    [c \in 1..Len(display_cols(headers)) |-> DictGet(row, display_cols(headers)[c])]

\* line 130: row.get("Feedback", "")
FeedbackOfRow(row) ==
    IF HasKey(row, FeedbackCol) THEN DictGet(row, FeedbackCol) ELSE <<>>

\* Ledgers as the programs of the repository leave them: one made by
\* download_new_assignment, the same after a mark was stored, and two made by
\* append_grades_row alone, with a column Q7 the editor does not show.
MarkedWithQ7 ==
    append_grades_row(NoFile,
        <<(<<NameCol, <<"a">>>>), (<<QKey(1), GradeValue>>),
          (<<QKey(7), <<"5">>>>), (<<OverallCol, OverallValue>>),
          (<<FeedbackCol, FeedbackValue>>)>>)

Downloaded == <<base_columns, SubmissionRecord(<<"a">>, <<"2", "0", "2", "5">>)>>

EditorLedgers ==
    {Downloaded,
     append_grades_row(FileOf(Downloaded), GradesDict(<<"a">>, {1}, TRUE, TRUE)),
     MarkedWithQ7,
     append_grades_row(FileOf(MarkedWithQ7), GradesDict(<<"b">>, {2}, TRUE, TRUE))}

\* What the user types into a cell or a comment box.
EditTexts == {<<>>, <<"9">>}

\* GradeEditor.__init__ and build_ui (lines 39-48, 74-82, 117-140).
OpenEditor(records) ==
    /\ editor.state = "closed"
    /\ editor' = [state |-> "open",
                  loaded |-> records,
                  headers |-> records[1],
                  rows |-> LoadedRows(records),
                  liststore |-> [i \in 1..Len(LoadedRows(records)) |->
                                    ListStoreRow(LoadedRows(records)[i], records[1])],
                  feedback_buffers |-> [i \in 1..Len(LoadedRows(records)) |->
                                           FeedbackOfRow(LoadedRows(records)[i])],
                  edits |-> 0,
                  written |-> <<>>]
    /\ UNCHANGED <<ledgerVars, writeVars, aggVars, scanVars, orderVars,
                   renderVars, batchVars, codecVars, resolveVars, textVars,
                   classifyVars, downloadVars>>

\* on_cell_edited (lines 165-171): every shown column but SubmissionTime is
\* editable (lines 92-95).
EditCell(i, c, new_text) ==
    /\ editor.state = "open"
    /\ editor.edits < MaxEdits
    /\ i \in 1..Len(editor.liststore)
    /\ c \in 1..Len(display_cols(editor.headers))
    /\ display_cols(editor.headers)[c] # SubmissionTimeCol
    /\ editor' = [editor EXCEPT !.liststore[i][c] = new_text,
                                !.edits = @ + 1]
    /\ UNCHANGED <<ledgerVars, writeVars, aggVars, scanVars, orderVars,
                   renderVars, batchVars, codecVars, resolveVars, textVars,
                   classifyVars, downloadVars>>

\* The user types into the comment box of row i (lines 124-132).
EditFeedback(i, new_text) ==
    /\ editor.state = "open"
    /\ editor.edits < MaxEdits
    /\ i \in 1..Len(editor.feedback_buffers)
    /\ editor' = [editor EXCEPT !.feedback_buffers[i] = new_text,
                                !.edits = @ + 1]
    /\ UNCHANGED <<ledgerVars, writeVars, aggVars, scanVars, orderVars,
                   renderVars, batchVars, codecVars, resolveVars, textVars,
                   classifyVars, downloadVars>>

\* lines 186-190: the shown values are written back to the row.
RECURSIVE WithListStore(_, _, _, _)
WithListStore(row, cols, vals, c) ==
    IF c > Len(cols) THEN row
    ELSE WithListStore(DictSet(row, cols[c], vals[c]), cols, vals, c + 1)

\* Mutant of SavedRow: the row is built from the widgets alone.
SavedRowFromWidgets(row, cols, vals, text) ==
    DictSet(WithListStore(<<>>, cols, vals, 1), FeedbackCol, text)

\* lines 186-197: a row with the shown values and the comment written back.
SavedRow(row, cols, vals, text) ==
    DictSet(WithListStore(row, cols, vals, 1), FeedbackCol, text)

\* lines 203-206: out = {h: r.get(h, "") for h in self.headers}; the writer
\* writes None as ''.
OutRecord(row, headers) ==
    [j \in 1..Len(headers) |->
        IF HasKey(row, headers[j]) THEN OrEmpty(DictGet(row, headers[j])) ELSE <<>>]

\* on_save_clicked (lines 172-210): the rows are updated from the widgets
\* and header and rows are written to the file.
SaveClicked ==
    /\ editor.state = "open"
    /\ \E rows \in {[i \in 1..Len(editor.rows) |->
                       SavedRow(editor.rows[i], display_cols(editor.headers),
                                editor.liststore[i], editor.feedback_buffers[i])]} :
          editor' = [editor EXCEPT
                        !.state = "saved",
                        !.rows = rows,
                        !.written = <<editor.headers>>
                            \o [i \in 1..Len(rows) |-> OutRecord(rows[i], editor.headers)]]
    /\ UNCHANGED <<ledgerVars, writeVars, aggVars, scanVars, orderVars,
                   renderVars, batchVars, codecVars, resolveVars, textVars,
                   classifyVars, downloadVars>>

NextEditor ==
    \/ \E records \in EditorLedgers : OpenEditor(records)
    \/ \E i \in 1..2, c \in 1..9, new_text \in EditTexts : EditCell(i, c, new_text)
    \/ \E i \in 1..2, new_text \in EditTexts : EditFeedback(i, new_text)
    \/ SaveClicked

\* ------------------------------------------------------- specifications

vars == <<ledgerVars, writeVars, aggVars, reportVars>>

Init == InitLedger /\ InitScan /\ InitOrder /\ InitRender /\ InitBatch /\ InitCodec /\ InitResolve /\ InitText /\ InitClassify /\ InitDownload /\ InitEditor

Next == \E nr \in NewRows : ApplyUpdate(nr)

\* Calls of append_grades_row, one after the other, each run to completion.
Spec == Init /\ [][Next]_vars

\* A ledger made by download_new_assignment and then marked.
SpecCreate == Init /\ [][NextCreate]_vars

\* Runs of download_new_assignment in a course that starts without ledgers.
SpecDownload == Init /\ [][NextDownload]_vars

\* One session of the grade editor: load, edits, save.
SpecEditor == Init /\ [][NextEditor]_vars

\* The calls with their write to the file taken step by step, a crash and a
\* concurrent report run included.
SpecWrite == Init /\ [][NextWrite]_vars

\* One aggregation pass of generate_termly_report.py over the ledgers.
SpecAgg == Init /\ [][NextAgg]_vars

\* The same pass over ledgers in which a name or an id reads like a
\* placeholder key.
SpecAggPlaceholder == Init /\ [][NextAggPlaceholder]_vars

\* The ledger scan of one report run.
SpecScan == Init /\ [][NextScan]_vars

\* Report runs over one directory whose files are listed in any order.
SpecOrder == Init /\ [][NextOrder]_vars

\* The report body rendered for a course of two ledgers.
SpecRender == Init /\ [][NextRender]_vars

\* One run of the marking loop over the submissions of an assignment.
SpecBatch == Init /\ [][NextBatch]_vars

\* A call of one of the three copies of map_overall_to_symbols.
SpecCodec == Init /\ [][NextCodec]_vars

\* Runs of detect_question_columns on one header.
SpecResolve == Init /\ [][NextResolve]_vars

\* detect_question_columns on a header of one column and Q1.
SpecClassify == Init /\ [][NextClassify]_vars

\* Calls of append_grades_row on a ledger kept as csv text.
SpecText == Init /\ [][NextText]_vars

\* ----------------------------------------------- properties of the ledger

\* C1: if the process crashes while the call writes an existing ledger, the
\* stored file still holds the complete content it had before the call.
C1_CrashLeavesPreviousVersion ==
    (pc = "crashed" /\ prev.exists) => file = prev

\* C2: a report run that reads an existing ledger while a call on it is in
\* progress sees the complete content before the call or the complete
\* content after it.
C2_ReaderSeesWholeLedger ==
    (observed.read /\ prev.exists) =>
        (observed.file = prev \/ observed.file = FileOf(target))

\* The header record and the data records of a stored file.
HeaderOf(f) == IF f.exists /\ f.records # <<>> THEN f.records[1] ELSE <<>>

RowsOf(f) == IF f.exists /\ f.records # <<>> THEN Tail(f.records) ELSE <<>>

\* The cell of the i-th data record under column col (col in the header).
CellOf(f, i, col) == RowsOf(f)[i][IndexOf(col, HeaderOf(f)) + 1]

\* Every data record is as long as the header.
Aligned(f) == \A i \in 1..Len(RowsOf(f)) : Len(RowsOf(f)[i]) = Len(HeaderOf(f))

\* The Name of the last call and its keys.
CallName == DictGet(new_row, NameCol)

CallKeys == {new_row[i][1] : i \in 1..Len(new_row)}

\* Trimmed, case-folded equality of two names.
SameName(x, y) == Lower(Strip(x)) = Lower(Strip(y))

\* The data records of the file the last call found whose Name equals the
\* call's Name in that sense.
PrevMatches ==
    {i \in 1..Len(RowsOf(prev)) :
        /\ InList(NameCol, HeaderOf(prev))
        /\ Len(RowsOf(prev)[i]) = Len(HeaderOf(prev))
        /\ SameName(CellOf(prev, i, NameCol), CallName)}

FirstPrevMatch == CHOOSE i \in PrevMatches : \A j \in PrevMatches : i <= j

NoDuplicates(lst) == \A i, j \in 1..Len(lst) : lst[i] = lst[j] => i = j

\* C3: after any sequence of calls from a non-existent ledger the Q<n>
\* columns of the header stand in ascending order of n.
C3_QuestionColumnsAscending ==
    LET h == HeaderOf(file)
    IN \A i, j \in 1..Len(h) :
        (i < j /\ IsQKey(h[i]) /\ IsQKey(h[j])) => QKeyNum(h[i]) <= QKeyNum(h[j])

\* C4 (as claimed): for every call that carries a Name, repeating the call
\* on the ledger it produced leaves the ledger as it is.
C4_IdempotentAnyName ==
    calls > 0 => append_grades_row(file, new_row) = file.records

\* C4 (amended): a call whose Name is not blank after trimming is idempotent:
\* repeating it on the ledger it produced leaves header, rows and cells as
\* they are.
C4_IdempotentNonBlankName ==
    (calls > 0 /\ Strip(CallName) # <<>>) =>
        append_grades_row(file, new_row) = file.records

\* A non-blank call was made on a ledger that already held its outcome: the
\* second of two equal calls.
C4_Witness ==
    /\ calls = 2
    /\ Strip(CallName) # <<>>
    /\ Len(new_row) > 2
    /\ Strip(CallName) # CallName
    /\ file = prev

\* C5 (as claimed): on the matched row every column the call does not name
\* keeps exactly the value stored before the call.
C5_OtherColumnsExact ==
    (calls > 0 /\ Strip(CallName) # <<>> /\ PrevMatches # {} /\ Aligned(file)) =>
        LET m == FirstPrevMatch
        IN \A col \in {HeaderOf(prev)[k] : k \in 1..Len(HeaderOf(prev))} \ CallKeys :
            /\ InList(col, HeaderOf(file))
            /\ CellOf(file, m, col) = CellOf(prev, m, col)

\* C5 (amended): on the matched row every column the call does not name
\* keeps the value stored before the call with its leading and trailing
\* whitespace removed.
C5_OtherColumnsTrimmed ==
    (calls > 0 /\ Strip(CallName) # <<>> /\ PrevMatches # {}) =>
        LET m == FirstPrevMatch
        IN /\ Len(RowsOf(file)) >= m
           /\ Len(RowsOf(file)[m]) = Len(HeaderOf(file))
           /\ \A col \in {HeaderOf(prev)[k] : k \in 1..Len(HeaderOf(prev))} \ CallKeys :
                /\ InList(col, HeaderOf(file))
                /\ CellOf(file, m, col) = Strip(CellOf(prev, m, col))

\* A call naming only Name and Feedback matched a row whose Overall and Q1
\* were set, and changed its Feedback.
C5_Witness ==
    /\ calls = 2
    /\ Strip(CallName) # <<>>
    /\ PrevMatches # {}
    /\ CallKeys = {NameCol, FeedbackCol}
    /\ InList(QKey(1), HeaderOf(prev))
    /\ CellOf(prev, FirstPrevMatch, OverallCol) = OverallValue
    /\ CellOf(prev, FirstPrevMatch, QKey(1)) = GradeValue
    /\ CellOf(prev, FirstPrevMatch, FeedbackCol) = <<>>
    /\ CellOf(file, FirstPrevMatch, FeedbackCol) = FeedbackValue

\* C6: after every call each row has a cell for every column of the header,
\* and the columns the call inserted are empty on the rows that were there
\* before, the cells the call itself set on the matched row apart.
C6_RowCompleteness ==
    calls > 0 =>
        /\ file.exists
        /\ \A i \in 1..Len(RowsOf(file)) :
            /\ Len(RowsOf(file)[i]) = Len(HeaderOf(file))
            /\ \A j \in 1..Len(RowsOf(file)[i]) : RowsOf(file)[i][j] \notin {None, RestList}
        /\ LET matched == IF Strip(CallName) # <<>> /\ PrevMatches # {}
                          THEN FirstPrevMatch ELSE 0
               inserted == {j \in 1..Len(HeaderOf(file)) :
                                ~InList(HeaderOf(file)[j], HeaderOf(prev))}
           IN \A i \in (1..Len(RowsOf(prev))) \ {matched} :
                \A j \in inserted :
                    /\ i <= Len(RowsOf(file))
                    /\ Len(RowsOf(file)[i]) >= j
                    /\ RowsOf(file)[i][j] = <<>>

\* The call inserted a column into a ledger that held a row of another
\* student.
C6_Witness ==
    /\ calls = 2
    /\ Len(HeaderOf(file)) > Len(HeaderOf(prev))
    /\ Len(RowsOf(prev)) = 1
    /\ Len(RowsOf(file)) = 2
    /\ RowsOf(file)[1][Len(HeaderOf(file))] = <<>>

\* C7: after any sequence of calls from a non-existent ledger the header
\* names no column twice and holds the four base columns.
C7_HeaderUniqueWithBase ==
    calls > 0 =>
        /\ NoDuplicates(HeaderOf(file))
        /\ \A b \in 1..Len(base_columns) : InList(base_columns[b], HeaderOf(file))

\* Two calls, both carrying Q1 and Feedback, the second adding Q2.
C7_Witness ==
    /\ calls = 2
    /\ InList(QKey(1), HeaderOf(prev))
    /\ {QKey(1), QKey(2), FeedbackCol} \subseteq CallKeys
    /\ Len(HeaderOf(file)) = Len(base_columns) + 2

\* The row a call appends: every header column empty, the call's values
\* laid over.
AppendedRow ==
    [j \in 1..Len(HeaderOf(file)) |->
        IF HasKey(new_row, HeaderOf(file)[j])
        THEN DictGet(new_row, HeaderOf(file)[j])
        ELSE <<>>]

\* The i-th row of the file holds the call's value in every column it names.
RowUpdated(i) ==
    /\ Len(RowsOf(file)) >= i
    /\ Len(RowsOf(file)[i]) = Len(HeaderOf(file))
    /\ \A k \in 1..Len(new_row) :
        /\ InList(new_row[k][1], HeaderOf(file))
        /\ CellOf(file, i, new_row[k][1]) = new_row[k][2]

RowAppended ==
    /\ Len(RowsOf(file)) = Len(RowsOf(prev)) + 1
    /\ RowsOf(file)[Len(RowsOf(file))] = AppendedRow

\* C8 (as claimed): a row whose trimmed, case-folded Name equals that of the
\* call is updated and none is added; otherwise one row is appended.
C8_LookupByName ==
    calls > 0 =>
        IF PrevMatches # {}
        THEN Len(RowsOf(file)) = Len(RowsOf(prev)) /\ RowUpdated(FirstPrevMatch)
        ELSE RowAppended

\* C8 (amended): when the call's Name is not blank after trimming, a row
\* whose trimmed, case-folded Name equals it is updated and none is added;
\* when there is no such row, or the call's Name is blank, exactly one row
\* is appended at the end, every header column empty and the call's values
\* laid over.
C8_LookupByNonBlankName ==
    calls > 0 =>
        IF Strip(CallName) # <<>> /\ PrevMatches # {}
        THEN Len(RowsOf(file)) = Len(RowsOf(prev)) /\ RowUpdated(FirstPrevMatch)
        ELSE RowAppended

\* A call naming the student of an existing row in another case and with
\* surrounding whitespace updated that row.
C8_Witness ==
    /\ calls = 2
    /\ PrevMatches # {}
    /\ Strip(CallName) # <<>>
    /\ CellOf(prev, FirstPrevMatch, NameCol) # Strip(CallName)
    /\ Len(RowsOf(file)) = 1
    /\ CellOf(file, 1, NameCol) = CallName

\* C9: on a ledger that does not exist the call {Name, Overall, Q1} creates
\* the header Name, SubmissionTime, Feedback, Overall, Q1 and the one row
\* (Name, '', '', Overall, Q1).
C9_NewLedger ==
    (calls > 0 /\ ~prev.exists /\ CallKeys = {NameCol, OverallCol, QKey(1)}) =>
        file = FileOf(<< <<NameCol, SubmissionTimeCol, FeedbackCol, OverallCol, QKey(1)>>,
                         <<CallName, <<>>, <<>>, DictGet(new_row, OverallCol),
                           DictGet(new_row, QKey(1))>> >>)

\* The first call, on no ledger, carried Name, Overall and Q1.
C9_Witness ==
    /\ calls = 1
    /\ ~prev.exists
    /\ file.exists
    /\ CallKeys = {NameCol, OverallCol, QKey(1)}
    /\ CallName = <<"a">>

\* C25: in the ledger download_new_assignment made, after any number of calls
\* of append_grades_row, every data record has as many cells as the header.
C25_RowsAlignWithHeader ==
    (file.exists /\ file.records # <<>>) =>
        \A i \in 2..Len(file.records) :
            Len(file.records[i]) = Len(file.records[1])

\* The row of the file the last call found that the call updated (0: none).
MatchedRow ==
    IF Strip(CallName) # <<>> /\ PrevMatches # {} THEN FirstPrevMatch ELSE 0

\* The rows the last call found, the one it updated apart.
OtherRows == (1..Len(RowsOf(prev))) \ {MatchedRow}

HeaderColumns(f) == {HeaderOf(f)[k] : k \in 1..Len(HeaderOf(f))}

\* C26 as claimed: on every row other than the one matched or appended, every
\* column that existed before the call holds exactly the value it held.
C26_OtherRowsExact ==
    calls > 0 =>
        \A i \in OtherRows : \A col \in HeaderColumns(prev) :
            /\ i <= Len(RowsOf(file))
            /\ InList(col, HeaderOf(file))
            /\ CellOf(file, i, col) = CellOf(prev, i, col)

\* C26: on every row other than the one matched or appended, every column
\* that existed before the call holds the value it held with leading and
\* trailing whitespace removed, and every column the call inserted is empty.
C26_OtherRowsTrimmed ==
    calls > 0 =>
        \A i \in OtherRows :
            /\ i <= Len(RowsOf(file))
            /\ Len(RowsOf(file)[i]) = Len(HeaderOf(file))
            /\ \A col \in HeaderColumns(prev) :
                   /\ InList(col, HeaderOf(file))
                   /\ CellOf(file, i, col) = Strip(CellOf(prev, i, col))
            /\ \A col \in HeaderColumns(file) \ HeaderColumns(prev) :
                   CellOf(file, i, col) = <<>>

\* A call for student b, with Q1, was made on a ledger holding the row of
\* student a with Feedback ' g' and no Q1 column: the row of a is the first
\* row still, its Overall as it was, its Feedback 'g', its Q1 empty.
C26_Witness ==
    /\ calls = 2
    /\ CallName = <<"b">>
    /\ Len(RowsOf(prev)) = 1
    /\ Len(RowsOf(file)) = 2
    /\ ~InList(QKey(1), HeaderOf(prev))
    /\ InList(QKey(1), HeaderOf(file))
    /\ CellOf(prev, 1, NameCol) = <<"a">>
    /\ CellOf(prev, 1, FeedbackCol) = FeedbackValue
    /\ CellOf(file, 1, FeedbackCol) = Strip(FeedbackValue)
    /\ CellOf(file, 1, OverallCol) = OverallValue
    /\ CellOf(file, 1, QKey(1)) = <<>>

\* C28: in a ledger built by calls from a non-existent ledger, no two rows
\* with a non-blank Name have Names that are equal under trimmed,
\* case-insensitive comparison; when every call had a non-blank Name that is
\* every row.
C28_OneRowPerStudent ==
    \A i, j \in 1..Len(RowsOf(file)) :
        (/\ i # j
         /\ Strip(CellOf(file, i, NameCol)) # <<>>
         /\ Strip(CellOf(file, j, NameCol)) # <<>>)
        => ~SameName(CellOf(file, i, NameCol), CellOf(file, j, NameCol))

\* Two calls, for ' A' and then for 'a', left one row.
C28_Witness ==
    /\ calls = 2
    /\ Len(RowsOf(prev)) = 1
    /\ Len(RowsOf(file)) = 1
    /\ CellOf(prev, 1, NameCol) = <<Space, "A">>
    /\ CellOf(file, 1, NameCol) = <<"a">>

\* The place of a column in the header of a file (0: not there).
PlaceIn(col, f) == IF InList(col, HeaderOf(f)) THEN IndexOf(col, HeaderOf(f)) + 1 ELSE 0

\* C29: a call removes no row and no header column and keeps the relative
\* order of the rows and of the header columns it found; the number of rows
\* is as it was when a row matched and one more otherwise.
C29_NothingRemovedOrReordered ==
    calls > 0 =>
        /\ \A col \in HeaderColumns(prev) : InList(col, HeaderOf(file))
        /\ \A c1, c2 \in HeaderColumns(prev) :
               PlaceIn(c1, prev) < PlaceIn(c2, prev)
                   => PlaceIn(c1, file) < PlaceIn(c2, file)
        /\ Len(RowsOf(file))
               = Len(RowsOf(prev)) + (IF MatchedRow # 0 THEN 0 ELSE 1)
        /\ \A i \in 1..Len(RowsOf(prev)) :
               SameName(CellOf(file, i, NameCol), CellOf(prev, i, NameCol))

\* A call for student b with Q1 and Q2 was made on a ledger with the row of
\* a and no Q column: the rows are a and b in that order, and the header is
\* the four columns found, in their order, with Q1 and Q2 after them.
C29_Witness ==
    /\ calls = 2
    /\ MatchedRow = 0
    /\ Len(RowsOf(prev)) = 1
    /\ Len(RowsOf(file)) = 2
    /\ HeaderOf(prev) = base_columns
    /\ HeaderOf(file) = base_columns \o <<QKey(1), QKey(2)>>
    /\ SameName(CellOf(file, 1, NameCol), <<"a">>)
    /\ SameName(CellOf(file, 2, NameCol), <<"b">>)

\* C27: after k runs in a course that started without ledgers, the ledgers
\* are grades1.csv .. gradesk.csv, and each is as the run that created it
\* left it: run n made gradesn.csv and no later run opened it again.
C27_LedgersOneToK ==
    /\ DOMAIN ledgers = 1..downloads
    /\ \A n \in DOMAIN ledgers : ledgers[n].run = n

\* ------------------------------------------ properties of the student index

\* k is s without its leading and trailing whitespace.
IsTrimOf(k, s) ==
    /\ k = <<>> \/ (~IsSpace(k[1]) /\ ~IsSpace(k[Len(k)]))
    /\ \E a \in 0..Len(s) :
        /\ a + Len(k) <= Len(s)
        /\ SubSeq(s, a + 1, a + Len(k)) = k
        /\ \A i \in (1..a) \cup ((a + Len(k) + 1)..Len(s)) : IsSpace(s[i])

\* The words of s: its maximal runs of characters that are not whitespace.
RECURSIVE WordsOf(_, _)
WordsOf(s, word) ==
    IF s = <<>> THEN (IF word = <<>> THEN <<>> ELSE <<word>>)
    ELSE IF IsSpace(s[1])
         THEN (IF word = <<>> THEN <<>> ELSE <<word>>) \o WordsOf(Tail(s), <<>>)
         ELSE WordsOf(Tail(s), Append(word, s[1]))

\* The words joined by single spaces.
RECURSIVE JoinWords(_)
JoinWords(ws) ==
    IF ws = <<>> THEN <<>>
    ELSE IF Len(ws) = 1 THEN ws[1]
    ELSE ws[1] \o <<Space>> \o JoinWords(Tail(ws))

\* The name trimmed, its whitespace runs collapsed to one space, lowercased.
NameNormalForm(s) ==
    LET joined == JoinWords(WordsOf(s, <<>>))
    IN [i \in 1..Len(joined) |-> LowerChar(joined[i])]

IsBlank(s) == \A i \in 1..Len(s) : IsSpace(s[i])

\* C10 (as claimed): for every row, the key is the trimmed id when that is
\* not empty, and the normalised name otherwise.
C10_KeyRule ==
    agg_rows > 0 =>
        IF ~IsBlank(last.id)
        THEN IsTrimOf(last.key, last.id)
        ELSE last.key = NameNormalForm(last.name)

\* C10 (amended): the key is the trimmed id, in its own case, when that is
\* not empty, whatever the name; otherwise, when the name is not blank, it is
\* the name trimmed, whitespace runs collapsed to one space, lowercased.
C10_KeyRuleNonBlank ==
    agg_rows > 0 =>
        /\ ~IsBlank(last.id) => IsTrimOf(last.key, last.id)
        /\ (IsBlank(last.id) /\ ~IsBlank(last.name)) =>
                last.key = NameNormalForm(last.name)

\* After a row with id ' X' (key 'X', not 'x'), a row without id whose name
\* has capitals, a whitespace run and surrounding whitespace was indexed.
C10_Witness ==
    /\ agg_rows >= 2
    /\ \E i \in 1..Len(students) : students[i].key = <<"X">>
    /\ ~(\E i \in 1..Len(students) : students[i].key = <<"x">>)
    /\ last.id = <<>>
    /\ last.name = <<Space, "A", Space, Tab, "b", Space>>
    /\ last.key = <<"a", Space, "b">>

\* The rows the index holds: <<position of the student, assignment number>>.
StoredRows ==
    {e \in (1..Len(students)) \X (1..MaxLedgers) :
        e[2] \in DOMAIN students[e[1]].assignments}

RowAt(e) == students[e[1]].assignments[e[2]]

\* Two names that differ only in letter case, in leading or trailing
\* whitespace or in the length of their interior whitespace runs.
SameNameUpToCaseAndSpace(n1, n2) == NameNormalForm(n1) = NameNormalForm(n2)

CreatedByBlankRow(s) == s.id = None /\ s.display_name = NoNameText

BlankRowsOf(s) ==
    {n \in DOMAIN s.assignments :
        IsBlank(s.assignments[n].name) /\ IsBlank(s.assignments[n].id)}

\* C12: the key synthesized for a row whose name and id are both blank
\* is the key of no other row of the pass, earlier or later: the student
\* entered under it holds that one row and nothing else, and no student
\* entered under a real id or name holds a blank row.
C12_PlaceholderKeyUnique ==
    \A i \in 1..Len(students) :
        (CreatedByBlankRow(students[i]) \/ BlankRowsOf(students[i]) # {})
        => /\ CreatedByBlankRow(students[i])
           /\ Cardinality(DOMAIN students[i].assignments) = 1
           /\ BlankRowsOf(students[i]) = DOMAIN students[i].assignments

\* The display name the index retains for key.
DisplayNameOf(key) == students[StudentIndex(students, key)].display_name

\* C13: for every key, the retained display name is the first non-blank
\* raw name among the rows that resolved to the key, in processing order;
\* a later row with a blank name does not overwrite it.
C13_FirstNonBlankName ==
    \A i \in 1..Len(first_name) :
        DisplayNameOf(first_name[i][1]) = first_name[i][2]

\* C22: when a row of a ledger is entered, it becomes the entry of its key for
\* that ledger's number, replacing an earlier row of the same ledger under
\* the same key (the last such row in file order stays); the entry of every
\* other key, and of the same key for another number, is as it was.
C22_LastRowWins ==
    [][agg_rows' = agg_rows + 1 =>
          /\ students'[StudentIndex(students', last'.key)].assignments[a_num']
                 = [name |-> last'.name, id |-> last'.id]
          /\ \A e \in StoredRows :
                 (students[e[1]].key # last'.key \/ e[2] # a_num')
                     => students'[e[1]].assignments[e[2]] = RowAt(e)]_vars

\* Ledger 2 held two rows of one student, 'a b' and then ' A  b ': the
\* student's entry for ledger 2 is the second row, the one for ledger 1 is
\* still the row of ledger 1.
C22_Witness ==
    /\ a_num = 2
    /\ agg_rows = 3
    /\ Len(students) = 1
    /\ DOMAIN students[1].assignments = {1, 2}
    /\ students[1].assignments[1].name = <<"a", Space, "b">>
    /\ students[1].assignments[2].name = <<Space, "A", Space, Tab, "b", Space>>
    /\ last.name = <<Space, "A", Space, Tab, "b", Space>>

\* C23: a ledger whose header has no recognizable Name column is left out of
\* the pass: none of its rows changes the student index.
C23_NamelessLedgerSkipped ==
    [][(agg_rows' = agg_rows + 1 /\ ~a_cols.name_col) => students' = students]_vars

\* ------------------------------------------- properties of the ledger scan

IsPrefix(s, t) == Len(s) <= Len(t) /\ SubSeq(t, 1, Len(s)) = s

\* C14: the global question-column list only grows as the ledgers are
\* scanned in ascending assignment order: the list before a ledger is scanned
\* is a prefix of the list after it, so no column placed is removed or moved.
C14_GlobalQcolsGrow == [][IsPrefix(global_qcols, global_qcols')]_vars

\* Ledger 1 placed Q1 and Q2; ledger 2, with Q1 and Q3, added Q3 behind them.
C14_Witness ==
    /\ Len(assignments) = 2
    /\ assignments[1].qcols = <<QKey(1), QKey(2)>>
    /\ assignments[2].qcols = <<QKey(1), QKey(3)>>
    /\ global_qcols = <<QKey(1), QKey(2), QKey(3)>>

\* C15: two runs that receive the same files in different directory-listing
\* orders produce the same global question-column order, the same students
\* with the same timelines and display names, in the same order.
C15_ScanOrderIrrelevant ==
    \A i, j \in 1..Len(runs) : runs[i].report = runs[j].report

\* C17: if reading one ledger fails, the pass goes on with the other
\* ledgers and writes a report from them: no run ends without a report
\* because a ledger could not be read.
C17_PassSurvivesReadFailure == n_files >= 2 => scan_pc # "aborted"

\* ------------------------------------------- properties of the round trip

\* The rows the engine's reader (mark.py lines 56-63) gets from the text.
RereadHeader == ReadHeader(FileOfText(stored))

RereadRows == ReadRows(FileOfText(stored))

\* C21 as claimed: re-reading a written ledger with the engine's own reader
\* gives the header that was written and, in every cell of every row, the
\* value that was written, surrounding whitespace included.
C21_RoundTripExact ==
    stored.exists =>
        /\ RereadHeader = stored.handed[1]
        /\ Len(RereadRows) = Len(stored.handed) - 1
        /\ \A i \in 1..Len(RereadRows) : \A j \in 1..Len(RereadHeader) :
               DictGet(RereadRows[i], RereadHeader[j]) = stored.handed[i + 1][j]

\* C21: the csv text gives back every written record, header and cells,
\* character for character; the engine's reader then returns the header as
\* written and every cell with its surrounding whitespace removed.
C21_RoundTripTrimmed ==
    stored.exists =>
        /\ CsvRecords(stored.text) = stored.handed
        /\ RereadHeader = stored.handed[1]
        /\ Len(RereadRows) = Len(stored.handed) - 1
        /\ \A i \in 1..Len(RereadRows) : \A j \in 1..Len(RereadHeader) :
               DictGet(RereadRows[i], RereadHeader[j])
                   = Strip(stored.handed[i + 1][j])

\* A ledger of two rows was written whose Feedback cells hold a line break
\* and a leading space.
C21_Witness ==
    /\ stored.exists
    /\ Len(stored.handed) = 3
    /\ \E i, j \in 2..3 : \E c \in 1..Len(stored.handed[1]) :
          /\ stored.handed[1][c] = FeedbackCol
          /\ stored.handed[i][c] = <<"l", Newline, "m">>
          /\ stored.handed[j][c] = <<Space, "g">>

\* --------------------------------------- properties of the column resolver

\* The columns of a list whose question number is n, in the list's order.
NumberedAs(list, n) ==
    SelectSeq(list, LAMBDA fn : IsNumbered(fn) /\ qnum(fn) = n)

\* How many numbered columns a list starts with.
NumberedCount(list) == Cardinality({i \in 1..Len(list) : IsNumbered(list[i])})

\* The output is the header's numbered columns in ascending number, those of
\* one number in header order, and then the header's unnumbered question
\* columns in header order.
ResolverOrdered(fieldnames, out) ==
    LET k == NumberedCount(out)
    IN /\ \A i \in 1..k : IsNumbered(out[i])
       /\ \A i, j \in 1..k : i < j => qnum(out[i]) <= qnum(out[j])
       /\ \A i \in 1..Len(fieldnames) :
              IsNumbered(fieldnames[i]) =>
                  NumberedAs(out, qnum(fieldnames[i]))
                      = NumberedAs(fieldnames, qnum(fieldnames[i]))
       /\ k = NumberedCount(fieldnames)
       /\ SubSeq(out, k + 1, Len(out)) = SelectSeq(fieldnames, IsUnordered)

\* C20: detect_question_columns returns a sub-list of the header: the numbered
\* question columns first in ascending number, columns with equal numbers in
\* their input order, the unnumbered question columns after them in input
\* order; a second run on the same header returns the same list.
C20_ResolverOrder ==
    resolved # <<>> =>
        /\ ResolverOrdered(resolved[1].fieldnames, resolved[1].runs[1])
        /\ \A r \in 1..Len(resolved[1].runs) :
               resolved[1].runs[r] = resolved[1].runs[1]

\* Both runs on Quiz, Q10, 'q 2', Q2 have returned 'q 2', Q2, Q10, Quiz.
C20_Witness ==
    /\ resolved # <<>>
    /\ resolved[1].fieldnames
           = <<<<"Q", "u", "i", "z">>, QKey(10), <<"q", Space, "2">>, QKey(2)>>
    /\ resolved[1].runs
           = <<<<<<"q", Space, "2">>, QKey(2), QKey(10), <<"Q", "u", "i", "z">>>>,
               <<<<"q", Space, "2">>, QKey(2), QKey(10), <<"Q", "u", "i", "z">>>>>>


\* ------------------------------- properties of the column classification

\* The positions of low where a numeral is attached to the token: the token,
\* then optional whitespace, one optional '_' or '-', optional whitespace,
\* then a digit.
AttachedAt(low, token) ==
    {i \in 1..Len(low) :
        /\ i + Len(token) - 1 <= Len(low)
        /\ SubSeq(low, i, i + Len(token) - 1) = token
        /\ SkipSeparator(low, i + Len(token)) <= Len(low)
        /\ IsDigit(low[SkipSeparator(low, i + Len(token))])}

HasAttachedNumeral(low) ==
    AttachedAt(low, <<"q">>) \cup AttachedAt(low, QuestionToken) # {}

HasNumeral(low) == \E i \in 1..Len(low) : IsDigit(low[i])

HasQ(low) == \E i \in 1..Len(low) : low[i] = "q"

\* The numerals of low: the maximal runs of digits, as numbers.
NumeralAt(low, i) == IntOf(DigitRun(low, i))

\* C24 as claimed: a name is numbered only when a numeral is attached to a q
\* or question token; a name with 'q' and no such numeral is unnumbered and
\* goes after the numbered columns; a name without 'q' is no question column.
C24_NumberedOnlyWhenAttached ==
    classified # <<>> =>
        LET c == classified[1]
            low == Lower(c.fn)
        IN /\ c.numbered <=> HasAttachedNumeral(low)
           /\ (HasQ(low) /\ ~HasAttachedNumeral(low)) =>
                  c.unordered /\ c.placed = <<QKey(1), c.fn>>
           /\ ~HasQ(low) =>
                  ~c.numbered /\ ~c.unordered /\ c.placed = <<QKey(1)>>

\* C24: a name is numbered exactly when it contains 'q' and a numeral: with
\* the numeral attached to a q or question token (optionally separated by
\* whitespace, '_' or '-') if there is one, otherwise with the first numeral
\* of the name. A name with 'q' and no numeral at all is unnumbered and goes
\* after the numbered columns; a name without 'q' is no question column.
C24_NumberedWhenAnyNumeral ==
    classified # <<>> =>
        LET c == classified[1]
            low == Lower(c.fn)
            digits == {i \in 1..Len(low) : IsDigit(low[i])}
        IN /\ c.numbered <=> (HasQ(low) /\ HasNumeral(low))
           /\ (c.numbered /\ HasAttachedNumeral(low)) =>
                  \E i \in 1..Len(low), token \in {<<"q">>, QuestionToken} :
                      /\ i \in AttachedAt(low, token)
                      /\ c.number = NumeralAt(low, SkipSeparator(low, i + Len(token)))
           /\ (c.numbered /\ ~HasAttachedNumeral(low)) =>
                  c.number = NumeralAt(low, CHOOSE i \in digits : \A j \in digits : i <= j)
           /\ c.numbered =>
                  c.placed = IF c.number <= 1 THEN <<c.fn, QKey(1)>>
                             ELSE <<QKey(1), c.fn>>
           /\ c.unordered <=> (HasQ(low) /\ ~HasNumeral(low))
           /\ c.unordered => c.placed = <<QKey(1), c.fn>>
           /\ ~HasQ(low) =>
                  ~c.numbered /\ ~c.unordered /\ c.placed = <<QKey(1)>>

\* 'Quiz 2' was taken as question 2 and placed after Q1.
C24_Witness ==
    /\ classified # <<>>
    /\ classified[1].fn = <<"Q", "u", "i", "z", " ", "2">>
    /\ classified[1].numbered
    /\ classified[1].number = 2
    /\ classified[1].placed = <<QKey(1), <<"Q", "u", "i", "z", " ", "2">>>>

\* ------------------------------------------- properties of the grade codec

\* The argument is a grade: an int from 1 to 9, or a string that consists
\* solely of decimal digits and denotes one.
IsGrade(overall) ==
    \/ overall.kind = "int" /\ overall.int \in 1..9
    \/ /\ overall.kind = "str"
       /\ overall.str # <<>>
       /\ \A i \in 1..Len(overall.str) : IsDigit(overall.str[i])
       /\ IntOf(overall.str) \in 1..9

GradeOf(overall) ==
    IF overall.kind = "int" THEN overall.int ELSE IntOf(overall.str)

\* The argument as it came: a string itself, an int in decimal, None as ''.
Verbatim(overall) ==
    IF overall.kind = "int" THEN StrOfInt(overall.int)
    ELSE IF overall.kind = "None" THEN <<>>
    ELSE overall.str

\* C19: each copy of the codec returns, for a grade, that grade's fixed
\* non-empty symbol with isPreEncoded = TRUE, and for every other argument
\* the argument unchanged with isPreEncoded = FALSE.
C19_CodecTotal ==
    codec # <<>> =>
        IF IsGrade(codec[1].overall)
        THEN /\ codec[1].result = Returns(mapping[GradeOf(codec[1].overall)], TRUE)
             /\ mapping[GradeOf(codec[1].overall)] # <<>>
        ELSE codec[1].result = Returns(Verbatim(codec[1].overall), FALSE)

\* ------------------------------------------ properties of the grade editor

\* The columns a session of the editor can change.
EditableCols ==
    {NameCol, OverallCol, FeedbackCol,
     QKey(1), QKey(2), QKey(3), QKey(4), QKey(5), QKey(6)}

\* C30: the file the editor saves has the loaded header in the loaded order
\* and as many rows as were loaded, in their order, each with a cell for every
\* column; SubmissionTime and every column that is not shown hold the loaded
\* values, and only Name, Overall, Q1..Q6 and Feedback may differ: they hold
\* what the table and the comment boxes hold.
C30_SavePreservesShape ==
    editor.state = "saved" =>
        /\ editor.written[1] = editor.loaded[1]
        /\ Len(editor.written) = Len(editor.loaded)
        /\ \A i \in 2..Len(editor.written) :
              /\ Len(editor.written[i]) = Len(editor.headers)
              /\ \A j \in 1..Len(editor.headers) :
                    IF editor.headers[j] \notin EditableCols
                    THEN editor.written[i][j] = editor.loaded[i][j]
                    ELSE IF editor.headers[j] = FeedbackCol
                    THEN editor.written[i][j] = editor.feedback_buffers[i - 1]
                    ELSE \E c \in 1..Len(display_cols(editor.headers)) :
                            /\ display_cols(editor.headers)[c] = editor.headers[j]
                            /\ editor.written[i][j] = editor.liststore[i - 1][c]

\* The ledger of students a and b with the columns Q1, Q2 and Q7 was saved
\* after the Overall of a was set to 9 and the Feedback of b was emptied: the
\* file differs from the loaded one in these two cells.
C30_Witness ==
    /\ editor.state = "saved"
    /\ Len(editor.loaded) = 3
    /\ InList(QKey(7), editor.headers)
    /\ editor.edits = 2
    /\ editor.liststore[1][IndexOf(OverallCol, display_cols(editor.headers)) + 1] = <<"9">>
    /\ editor.feedback_buffers[2] = <<>>
    /\ Cardinality({e \in (2..3) \X (1..Len(editor.headers)) :
                       editor.written[e[1]][e[2]] # editor.loaded[e[1]][e[2]]}) = 2

\* ------------------------------------------ properties of the marking loop

\* C18: an IO error raised by append_grades_row for one student fails only
\* that student's update: the loop goes on, so a run never ends with a
\* submission after the failed one left unmarked.
C18_BatchSurvivesIOError ==
    batch_pc = "aborted" => marked + 1 = Len(submissions)

\* ------------------------------------------- properties of the report body

\* The place of the student with this key among the students of the report.
PlaceOf(key) ==
    CHOOSE i \in 1..Len(rendered[1].sorted_students) :
        rendered[1].sorted_students[i].key = key

\* Student 'a', who has a row in ledger 2, and that row's entry.
StudentA == rendered[1].sorted_students[PlaceOf(<<"a">>)]
EntryA == StudentA.assignments[2]

\* The row has an Overall (a Feedback) cell, and it is blank.
BlankOverall(ar) ==
    ar.overall_col # None /\ IsBlank(OrEmpty(DictGet(ar.row, ar.overall_col)))
BlankFeedback(ar) ==
    ar.feedback_col # None /\ IsBlank(OrEmpty(DictGet(ar.row, ar.feedback_col)))

\* The row has a mark the table shows: an Overall or a question cell that is
\* not blank.
HasMark(ar) ==
    \/ ar.overall_col # None /\ ~IsBlank(OrEmpty(DictGet(ar.row, ar.overall_col)))
    \/ \E i \in 1..Len(ar.qcols) : ~IsBlank(OrEmpty(DictGet(ar.row, ar.qcols[i])))

MarksOf(key, n) == rendered[1].marks[PlaceOf(key)][n]
FeedbackOf(key, n) == rendered[1].feedback[PlaceOf(key)][n]

====
